---- MODULE Spec2Model ----
(***************************************************************************)
(* Solana Agent Kit: alias resolution, swap, transfer and staking          *)
(* orchestration (src/src/swap.js, src/src/stake.js, the transfer module   *)
(* src/unnamed/part_002 and the wallet/server module src/unnamed/part_000),*)
(* modelled as a state machine over one in-flight invocation and the       *)
(* remote ledger and HTTP collaborators it talks to.                       *)
(***************************************************************************)
EXTENDS Integers, Sequences, FiniteSets, TLC

(***************************************************************************)
(* JavaScript strings are sequences of one-character strings, so that      *)
(* toUpperCase / toLowerCase and property lookup act on the characters.    *)
(***************************************************************************)
\* the characters the conversions tell apart
Alphabet ==
  [LowerLetters |->
     <<"a", "b", "c", "d", "e", "f", "g", "h", "i", "j", "k", "l", "m", "n",
       "o", "p", "q", "r", "s", "t", "u", "v", "w", "x", "y", "z">>,
   UpperLetters |->
     <<"A", "B", "C", "D", "E", "F", "G", "H", "I", "J", "K", "L", "M", "N",
       "O", "P", "Q", "R", "S", "T", "U", "V", "W", "X", "Y", "Z">>,
   Digits |-> <<"0", "1", "2", "3", "4", "5", "6", "7", "8", "9">>,
   Base58Alphabet |->
     {"1", "2", "3", "4", "5", "6", "7", "8", "9", "A", "B", "C",
      "D", "E", "F", "G", "H", "J", "K", "L", "M", "N", "P", "Q",
      "R", "S", "T", "U", "V", "W", "X", "Y", "Z", "a", "b", "c",
      "d", "e", "f", "g", "h", "i", "j", "k", "m", "n", "o", "p",
      "q", "r", "s", "t", "u", "v", "w", "x", "y", "z"}]

LetterIndex(c, letters) == CHOOSE i \in 1..26 : letters[i] = c

\* String.prototype.toUpperCase, ASCII letters
toUpperCase(s) ==
  LET UpperChar(c) ==
        IF \E i \in 1..26 : Alphabet.LowerLetters[i] = c
        THEN Alphabet.UpperLetters[LetterIndex(c, Alphabet.LowerLetters)]
        ELSE c
  IN  [i \in 1..Len(s) |-> UpperChar(s[i])]

\* String.prototype.toLowerCase, ASCII letters
toLowerCase(s) ==
  LET LowerChar(c) ==
        IF \E i \in 1..26 : Alphabet.UpperLetters[i] = c
        THEN Alphabet.LowerLetters[LetterIndex(c, Alphabet.UpperLetters)]
        ELSE c
  IN  [i \in 1..Len(s) |-> LowerChar(s[i])]

(***************************************************************************)
(* JavaScript values that the resolvers can see or return.                 *)
(***************************************************************************)
JsString(s) == [t |-> "string", s |-> s]

JsUndefined == [t |-> "undefined", s |-> <<>>]

JsNull == [t |-> "null", s |-> <<>>]

\* the outcome of calling a string method on a value that is not a string
JsTypeError == [t |-> "TypeError", s |-> <<>>]

\* ToBoolean
Truthy(v) ==
  CASE v.t = "string" -> v.s # <<>>
    [] v.t = "undefined" -> FALSE
    [] OTHER -> TRUE

\* src/src/swap.js: const TOKENS = { SOL: ..., ... }, as <<key, value>> pairs
TOKENS ==
  {<<<<"S", "O", "L">>,
     <<"S", "o", "1", "1", "1", "1", "1", "1", "1", "1", "1", "1", "1", "1",
      "1", "1", "1", "1", "1", "1", "1", "1", "1", "1", "1", "1", "1", "1",
      "1", "1", "1", "1", "1", "1", "1", "1", "1", "1", "1", "1", "1", "1",
      "2">>>>,
   <<<<"U", "S", "D", "C">>,
     <<"E", "P", "j", "F", "W", "d", "d", "5", "A", "u", "f", "q", "S", "S",
      "q", "e", "M", "2", "q", "N", "1", "x", "z", "y", "b", "a", "p", "C",
      "8", "G", "4", "w", "E", "G", "G", "k", "Z", "w", "y", "T", "D", "t",
      "1", "v">>>>,
   <<<<"U", "S", "D", "T">>,
     <<"E", "s", "9", "v", "M", "F", "r", "z", "a", "C", "E", "R", "m", "J",
      "f", "r", "F", "4", "H", "2", "F", "Y", "D", "4", "K", "C", "o", "N",
      "k", "Y", "1", "1", "M", "c", "C", "e", "8", "B", "e", "n", "w", "N",
      "Y", "B">>>>,
   <<<<"B", "O", "N", "K">>,
     <<"D", "e", "z", "X", "A", "Z", "8", "z", "7", "P", "n", "r", "n", "R",
      "J", "j", "z", "3", "w", "X", "B", "o", "R", "g", "i", "x", "C", "a",
      "6", "x", "j", "n", "B", "7", "Y", "a", "B", "1", "p", "P", "B", "2",
      "6", "3">>>>,
   <<<<"J", "U", "P">>,
     <<"J", "U", "P", "y", "i", "w", "r", "Y", "J", "F", "s", "k", "U", "P",
      "i", "H", "a", "7", "h", "k", "e", "R", "8", "V", "U", "t", "A", "e",
      "F", "o", "S", "Y", "b", "K", "e", "d", "Z", "N", "s", "D", "v", "C",
      "N">>>>,
   <<<<"W", "I", "F">>,
     <<"E", "K", "p", "Q", "G", "S", "J", "t", "j", "M", "F", "q", "K", "Z",
      "9", "K", "Q", "a", "n", "S", "q", "Y", "X", "R", "c", "F", "8", "f",
      "B", "o", "p", "z", "L", "H", "Y", "x", "d", "M", "6", "5", "z", "c",
      "j", "m">>>>,
   <<<<"P", "Y", "T", "H">>,
     <<"H", "Z", "1", "J", "o", "v", "N", "i", "V", "v", "G", "r", "G", "N",
      "i", "i", "Y", "v", "E", "o", "z", "E", "V", "g", "Z", "5", "8", "x",
      "a", "U", "3", "R", "K", "w", "X", "8", "e", "A", "C", "Q", "B", "C",
      "t", "3">>>>}

\* src/src/stake.js: const VALIDATORS = { 'jito': ..., ... }
VALIDATORS ==
  {<<<<"j", "i", "t", "o">>,
     <<"J", "1", "t", "o", "1", "y", "u", "f", "R", "n", "o", "W", "n", "8",
      "1", "K", "Y", "g", "1", "X", "k", "T", "W", "z", "m", "K", "j", "n",
      "Y", "S", "n", "m", "E", "2", "V", "Y", "8", "D", "G", "U", "J", "9",
      "Q", "v">>>>,
   <<<<"m", "a", "r", "i", "n", "a", "d", "e">>,
     <<"m", "r", "g", "n", "2", "8", "B", "h", "o", "c", "w", "d", "A", "U",
      "E", "e", "n", "e", "n", "3", "S", "w", "2", "M", "R", "9", "c", "P",
      "K", "D", "p", "L", "k", "D", "v", "z", "D", "d", "R", "7", "D", "B",
      "D">>>>,
   <<<<"s", "o", "l", "f", "l", "a", "r", "e">>,
     <<"S", "o", "L", "F", "L", "a", "R", "e", "R", "V", "N", "a", "g", "J",
      "z", "Y", "Y", "G", "p", "p", "S", "k", "q", "z", "k", "h", "m", "H",
      "Z", "5", "Z", "R", "8", "E", "U", "p", "z", "q", "L", "E", "A", "a",
      "L">>>>,
   <<<<"e", "v", "e", "r", "s", "t", "a", "k", "e">>,
     <<"E", "v", "e", "r", "S", "F", "w", "9", "u", "N", "5", "t", "1", "V",
      "8", "k", "S", "3", "f", "i", "c", "H", "U", "c", "K", "f", "f", "S",
      "j", "w", "p", "G", "z", "U", "S", "G", "d", "7", "m", "g", "m", "S",
      "k", "s">>>>}

\* the property names every object literal inherits from Object.prototype
ObjectPrototypeKeys ==
  {<<"c", "o", "n", "s", "t", "r", "u", "c", "t", "o", "r">>,
   <<"_", "_", "p", "r", "o", "t", "o", "_", "_">>,
   <<"h", "a", "s", "O", "w", "n", "P", "r", "o", "p", "e", "r", "t", "y">>,
   <<"i", "s", "P", "r", "o", "t", "o", "t", "y", "p", "e", "O", "f">>,
   <<"p", "r", "o", "p", "e", "r", "t", "y", "I", "s", "E", "n", "u", "m",
    "e", "r", "a", "b", "l", "e">>,
   <<"t", "o", "L", "o", "c", "a", "l", "e", "S", "t", "r", "i", "n", "g">>,
   <<"t", "o", "S", "t", "r", "i", "n", "g">>,
   <<"v", "a", "l", "u", "e", "O", "f">>,
   <<"_", "_", "d", "e", "f", "i", "n", "e", "G", "e", "t", "t", "e", "r",
    "_", "_">>,
   <<"_", "_", "d", "e", "f", "i", "n", "e", "S", "e", "t", "t", "e", "r",
    "_", "_">>,
   <<"_", "_", "l", "o", "o", "k", "u", "p", "G", "e", "t", "t", "e", "r",
    "_", "_">>,
   <<"_", "_", "l", "o", "o", "k", "u", "p", "S", "e", "t", "t", "e", "r",
    "_", "_">>}

TableKeys(table) == {e[1] : e \in table}

TableValues(table) == {e[2] : e \in table}

\* table[key] of an object literal: own property, else the prototype chain,
\* where the name finds a function or, under __proto__, an object
GetProp(table, key) ==
  LET JsInherited(s) ==
        [t |-> IF s = <<"_", "_", "p", "r", "o", "t", "o", "_", "_">>
               THEN "object" ELSE "function",
         s |-> s]
  IN  IF key \in TableKeys(table)
      THEN JsString((CHOOSE e \in table : e[1] = key)[2])
      ELSE IF key \in ObjectPrototypeKeys
           THEN JsInherited(key)
           ELSE JsUndefined

\* a lookup that forgets toUpperCase
resolveMint_CaseSensitive(tokenOrMint) ==
  IF tokenOrMint.t # "string"
  THEN JsTypeError
  ELSE IF Truthy(GetProp(TOKENS, tokenOrMint.s))
       THEN GetProp(TOKENS, tokenOrMint.s)
       ELSE tokenOrMint

\* Swapper.resolveMint(tokenOrMint)
resolveMint(tokenOrMint) ==
  IF tokenOrMint.t # "string"
  THEN JsTypeError
  ELSE IF Truthy(GetProp(TOKENS, toUpperCase(tokenOrMint.s)))
       THEN GetProp(TOKENS, toUpperCase(tokenOrMint.s))
       ELSE tokenOrMint

\* Staking.resolveValidator(validatorOrAddress)
resolveValidator(validatorOrAddress) ==
  IF validatorOrAddress.t # "string"
  THEN JsTypeError
  ELSE IF Truthy(GetProp(VALIDATORS, toLowerCase(validatorOrAddress.s)))
       THEN GetProp(VALIDATORS, toLowerCase(validatorOrAddress.s))
       ELSE validatorOrAddress

(***************************************************************************)
(* JavaScript numbers are IEEE-754 doubles.  A finite double is kept as a  *)
(* sign, a significand of doubleBits bits (most significant bit first,     *)
(* leading bit 1; the empty sequence for zero) and a binary exponent:      *)
(* value = significand * 2^e.  Arbitrary-length bit sequences stand for    *)
(* the exact intermediate results, which are then rounded to nearest, ties *)
(* to even, as the hardware does.                                          *)
(***************************************************************************)
\* doubleBits: the significand bits of a double.  Exact intermediate results
\* are natural numbers of any size, kept as limbs of limbBits bits
\* (limbBase = 2^limbBits), multiplied and divided by at most maxFactor in
\* one step, so that no step leaves the 32-bit integers; a division carries
\* guardBits binary places (five limbs) before it is rounded.
Arith ==
  [doubleBits |-> 53, limbBits |-> 20, limbBase |-> 1048576,
   maxFactor |-> 1024, guardBits |-> 100]

\* @solana/web3.js LAMPORTS_PER_SOL
LAMPORTS_PER_SOL == 1000000000

IsDigit(c) == \E i \in 1..10 : Alphabet.Digits[i] = c

DigitVal(c) == (CHOOSE i \in 1..10 : Alphabet.Digits[i] = c) - 1

Zeros(n) == [i \in 1..n |-> 0]

(***************************************************************************)
(* Exact intermediate results are natural numbers of any size, kept as     *)
(* sequences of limbs of limbBits bits, most significant limb first, so    *)
(* that no step of the arithmetic leaves the 32-bit integers.              *)
(***************************************************************************)
RECURSIVE BitsToInt(_)
BitsToInt(b) ==
  IF b = <<>> THEN 0
  ELSE 2 * BitsToInt(SubSeq(b, 1, Len(b) - 1)) + b[Len(b)]

RECURSIVE Pow2(_)
Pow2(n) == IF n = 0 THEN 1 ELSE 2 * Pow2(n - 1)

RECURSIVE Pow10(_)
Pow10(s) == IF s = 0 THEN 1 ELSE 10 * Pow10(s - 1)

HasOne(b) == \E i \in 1..Len(b) : b[i] = 1

\* b without its leading zero bits
StripZeros(b) ==
  IF ~HasOne(b) THEN <<>>
  ELSE SubSeq(b, CHOOSE i \in 1..Len(b) :
                   b[i] = 1 /\ \A j \in 1..(i - 1) : b[j] = 0,
              Len(b))

\* b + 1 on bit sequences
BitsInc(b) ==
  IF \A i \in 1..Len(b) : b[i] = 1 THEN <<1>> \o Zeros(Len(b))
  ELSE LET z == CHOOSE i \in 1..Len(b) :
                  b[i] = 0 /\ \A j \in (i + 1)..Len(b) : b[j] = 1
       IN  [i \in 1..Len(b) |-> IF i < z THEN b[i] ELSE IF i = z THEN 1 ELSE 0]

\* the bits of a limb sequence
LimbsToBits(L) ==
  [i \in 1..(Arith.limbBits * Len(L)) |->
     (L[((i - 1) \div Arith.limbBits) + 1]
        \div Pow2(Arith.limbBits - 1 - ((i - 1) % Arith.limbBits))) % 2]

\* the limbs of a bit sequence
BitsToLimbs(b) ==
  LET n == (Len(b) + Arith.limbBits - 1) \div Arith.limbBits
      p == Zeros(n * Arith.limbBits - Len(b)) \o b
  IN  [j \in 1..n |->
         BitsToInt(SubSeq(p, (j - 1) * Arith.limbBits + 1, j * Arith.limbBits))]

\* the limbs of L * c + carry, for c <= maxFactor and carry < limbBase
RECURSIVE LimbMulAdd(_, _, _)
LimbMulAdd(L, c, carry) ==
  IF L = <<>> THEN <<carry>>
  ELSE Append(LimbMulAdd(SubSeq(L, 1, Len(L) - 1), c,
                         (L[Len(L)] * c + carry) \div Arith.limbBase),
              (L[Len(L)] * c + carry) % Arith.limbBase)

\* long division of L by d <= maxFactor, with the running remainder r
RECURSIVE LimbDiv(_, _, _)
LimbDiv(L, d, r) ==
  IF L = <<>> THEN [q |-> <<>>, r |-> r]
  ELSE LET cur  == r * Arith.limbBase + L[1]
           rest == LimbDiv(Tail(L), d, cur % d)
       IN  [q |-> <<cur \div d>> \o rest.q, r |-> rest.r]

\* L * c, taking the factors of a large c a thousand at a time
RECURSIVE LimbTimes(_, _)
LimbTimes(L, c) ==
  IF c <= Arith.maxFactor THEN LimbMulAdd(L, c, 0)
  ELSE LimbTimes(LimbMulAdd(L, 1000, 0), c \div 1000)

\* L divided by c (a power of ten when above maxFactor); sticky records
\* whether anything was cut off
RECURSIVE LimbOver(_, _, _)
LimbOver(L, c, sticky) ==
  IF c <= Arith.maxFactor
  THEN [q |-> LimbDiv(L, c, 0).q, sticky |-> sticky \/ LimbDiv(L, c, 0).r # 0]
  ELSE LimbOver(LimbDiv(L, 1000, 0).q, c \div 1000,
                sticky \/ LimbDiv(L, 1000, 0).r # 0)

\* L divided by 10^s, at most three decimal places at a time
RECURSIVE DivPow10(_, _, _)
DivPow10(L, s, sticky) ==
  IF s = 0 THEN [q |-> L, sticky |-> sticky]
  ELSE LET step == IF s > 3 THEN 3 ELSE s
           d    == LimbDiv(L, Pow10(step), 0)
       IN  DivPow10(d.q, s - step, sticky \/ d.r # 0)

NaN == [k |-> "nan", neg |-> FALSE, m |-> <<>>, e |-> 0]

Zero == [k |-> "fin", neg |-> FALSE, m |-> <<>>, e |-> 0]

\* the double nearest to (-1)^neg * (bits + fraction) * 2^e, where sticky
\* says that a non-zero fraction below the last bit was cut off
RoundToDouble(neg, bits0, e, sticky) ==
  LET bits == StripZeros(bits0)
      n    == Len(bits)
  IN  IF n = 0 THEN Zero
      ELSE IF n <= Arith.doubleBits
      THEN [k |-> "fin", neg |-> neg,
            m |-> bits \o Zeros(Arith.doubleBits - n), e |-> e - (Arith.doubleBits - n)]
      ELSE LET top   == SubSeq(bits, 1, Arith.doubleBits)
               guard == bits[Arith.doubleBits + 1]
               rest  == sticky \/ HasOne(SubSeq(bits, Arith.doubleBits + 2, n))
               up    == guard = 1 /\ (rest \/ top[Arith.doubleBits] = 1)
               m0    == IF up THEN BitsInc(top) ELSE top
           IN  IF Len(m0) > Arith.doubleBits
               THEN [k |-> "fin", neg |-> neg,
                     m |-> SubSeq(m0, 1, Arith.doubleBits),
                     e |-> e + (n - Arith.doubleBits) + 1]
               ELSE [k |-> "fin", neg |-> neg, m |-> m0,
                     e |-> e + (n - Arith.doubleBits)]

RECURSIVE DigitPrefix(_)
DigitPrefix(s) ==
  IF s # <<>> /\ IsDigit(s[1]) THEN <<s[1]>> \o DigitPrefix(Tail(s)) ELSE <<>>

\* the number written by a sequence of decimal digits
RECURSIVE DecToLimbs(_)
DecToLimbs(ds) ==
  IF ds = <<>> THEN <<>>
  ELSE LimbMulAdd(DecToLimbs(SubSeq(ds, 1, Len(ds) - 1)), 10,
                  DigitVal(ds[Len(ds)]))

\* parseFloat(text) for a sign, digits and a fraction; what follows the
\* numeric prefix is ignored, and a text without one gives NaN
parseFloat(text) ==
  LET neg   == text # <<>> /\ text[1] = "-"
      body  == IF neg THEN Tail(text) ELSE text
      int   == DigitPrefix(body)
      after == SubSeq(body, Len(int) + 1, Len(body))
      frac  == IF after # <<>> /\ after[1] = "."
               THEN DigitPrefix(Tail(after)) ELSE <<>>
      d     == DivPow10(DecToLimbs(int \o frac)
                          \o Zeros(Arith.guardBits \div Arith.limbBits),
                        Len(frac), FALSE)
  IN  IF int = <<>> /\ frac = <<>> THEN NaN
      ELSE RoundToDouble(neg, LimbsToBits(d.q), 0 - Arith.guardBits, d.sticky)

\* Number(text), the conversion the operator * applies to a string, for a
\* text without blanks, exponent or radix prefix: the whole text has to be
\* a number, and the empty text is 0
ToNumber(text) ==
  LET neg   == text # <<>> /\ text[1] = "-"
      body  == IF neg THEN Tail(text) ELSE text
      int   == DigitPrefix(body)
      after == SubSeq(body, Len(int) + 1, Len(body))
      frac  == IF after # <<>> /\ after[1] = "."
               THEN DigitPrefix(Tail(after)) ELSE <<>>
      rest  == IF after # <<>> /\ after[1] = "."
               THEN SubSeq(after, Len(frac) + 2, Len(after)) ELSE after
  IN  IF text = <<>> THEN Zero
      ELSE IF rest # <<>> THEN NaN
      ELSE parseFloat(text)

\* the double product a * c of a number and a small positive integer
NumTimes(a, c) ==
  IF a.k = "nan" THEN NaN
  ELSE RoundToDouble(a.neg, LimbsToBits(LimbTimes(BitsToLimbs(a.m), c)),
                     a.e, FALSE)

\* integers that Math.floor and the ledger hand around, and NaN
JsInt(v) == [k |-> "int", v |-> v]

JsNaN == [k |-> "nan", v |-> 0]

\* Math.floor of a double, as an integer
MathFloor(a) ==
  IF a.k = "nan" THEN JsNaN
  ELSE IF a.m = <<>> THEN JsInt(0)
  ELSE IF a.e >= 0 THEN
         JsInt((IF a.neg THEN -1 ELSE 1) * BitsToInt(a.m \o Zeros(a.e)))
  ELSE LET keep == Arith.doubleBits + a.e
           ip   == IF keep > 0 THEN BitsToInt(SubSeq(a.m, 1, keep)) ELSE 0
           fr   == IF keep > 0 THEN HasOne(SubSeq(a.m, keep + 1, Arith.doubleBits))
                   ELSE TRUE
       IN  IF a.neg THEN JsInt(0 - ip - (IF fr THEN 1 ELSE 0)) ELSE JsInt(ip)

\* the double quotient n / d of two small positive integers
IntOver(n, d) ==
  LET r == LimbOver(<<n \div Arith.limbBase, n % Arith.limbBase>>
                      \o Zeros(Arith.guardBits \div Arith.limbBits), d, FALSE)
  IN  RoundToDouble(FALSE, LimbsToBits(r.q), 0 - Arith.guardBits, r.sticky)

\* amount in SOL -> lamports: Math.floor(amountSol * LAMPORTS_PER_SOL)
ToLamports(amountSol) == MathFloor(NumTimes(amountSol, LAMPORTS_PER_SOL))

\* lamports + rentExemption on integer-valued numbers below 2^53
JsPlus(a, b) ==
  IF a.k = "nan" \/ b.k = "nan" THEN JsNaN ELSE JsInt(a.v + b.v)

\* lamports / LAMPORTS_PER_SOL
ToSol(lamports) == IntOver(lamports, LAMPORTS_PER_SOL)

(***************************************************************************)
(* Text helpers                                                            *)
(***************************************************************************)
\* Number.prototype.toString for a non-negative integer
RECURSIVE IntToText(_)
IntToText(n) ==
  IF n < 10 THEN <<Alphabet.Digits[n + 1]>>
  ELSE Append(IntToText(n \div 10), Alphabet.Digits[(n % 10) + 1])

RECURSIVE TextToInt(_)
TextToInt(t) ==
  IF t = <<>> THEN 0
  ELSE 10 * TextToInt(SubSeq(t, 1, Len(t) - 1)) + DigitVal(t[Len(t)])

\* the texts BigInt(text) accepts: decimal digits (an empty text gives 0n)
IsIntegerText(t) == \A i \in 1..Len(t) : IsDigit(t[i])

\* new PublicKey(text) succeeds: base58 text of the length of a 32-byte key
IsPublicKey(t) ==
  /\ Len(t) \in 32..44
  /\ \A i \in 1..Len(t) : t[i] \in Alphabet.Base58Alphabet

(***************************************************************************)
(* Inputs                                                                  *)
(***************************************************************************)
SOL == <<"S", "O", "L">>

USDC == <<"U", "S", "D", "C">>

SOL_MINT == (CHOOSE e \in TOKENS : e[1] = SOL)[2]

USDC_MINT == (CHOOSE e \in TOKENS : e[1] = USDC)[2]

JITO_VOTE == (CHOOSE e \in VALIDATORS : e[1] = <<"j", "i", "t", "o">>)[2]

\* an address that is in neither table
OTHER_ADDRESS ==
  <<"9", "x", "Q", "e", "W", "v", "G", "8", "1", "6", "b", "U", "x", "9",
    "E", "P", "j", "H", "m", "a", "T", "2", "3", "y", "v", "V", "M", "2",
    "Z", "W", "b", "r", "r", "p", "Z", "b", "9", "P", "u", "s", "V", "F",
    "i", "n">>

\* the default of the slippageBps parameter and of body.slippage || 50
DefaultSlippageBps == 50

\* lamports an account of the model ledger can hold
MaxLamports == 3

\* accounts one program-account scan can report
MaxAccounts == 1

\* the value each part of the state holds before anything is put in it
Blank ==
  [NoDelegation |->
     [present |-> FALSE, voter |-> <<>>,
      activationEpoch |-> [t |-> "undefined", n |-> 0]],
   NoFile |-> [exists |-> FALSE, content |-> <<>>, mode |-> ""],
   NoRequest |-> [method |-> "", path |-> <<>>, body |-> <<>>],
   NoInfo |-> [id |-> JsUndefined],
  \* a fetch Response: status 0 stands for none received
   NoResponse |-> [status |-> 0, body |-> <<>>, readable |-> TRUE],
   NoArgs |->
     [x |-> <<>>, from |-> <<>>, to |-> <<>>, amount |-> <<>>, slippage |-> 0,
      mint |-> <<>>, validator |-> <<>>, stakeAccount |-> <<>>,
      mints |-> [t |-> "undefined", v |-> <<>>], id |-> <<>>, repeats |-> 0],
   NoLocal |->
     [inputMintAddr |-> JsUndefined, outputMintAddr |-> JsUndefined,
      amountSol |-> NaN, lamports |-> JsNaN, rentExemption |-> JsNaN,
      totalLamports |-> JsNaN, stakeBalance |-> JsNaN, stakeAccount |-> "",
      voteAccount |-> <<>>, accounts |-> <<>>,
      response |-> [status |-> 0, body |-> <<>>, readable |-> TRUE],
      keypair |-> <<>>, signature |-> "", confirmation |-> [err |-> JsNull],
      account |-> ""],
   NoQuery |->
     [inputMint |-> <<>>, outputMint |-> <<>>, amount |-> <<>>,
      slippageBps |-> <<>>],
   NoQuote |->
     [inputMint |-> JsUndefined, outputMint |-> JsUndefined,
      inAmount |-> <<>>, outAmount |-> <<>>],
   NoResult |->
     [status |-> "none", http |-> 0, error |-> "", failedAt |-> "",
      value |-> JsUndefined, again |-> JsUndefined,
      inputMint |-> JsUndefined, outputMint |-> JsUndefined,
      amount |-> NaN, list |-> <<>>, message |-> <<>>, signature |-> "",
      inAmount |-> <<>>, outAmount |-> <<>>, prices |-> <<>>,
      info |-> [id |-> JsUndefined],
      address |-> <<>>, out |-> "none", written |-> 0, exit |-> 0],
  \* no body: request leaves opts.body unset
   NoBody |->
     [present |-> FALSE, inputMint |-> <<>>, outputMint |-> <<>>,
      amount |-> <<>>, slippageBps |-> 0, targetPrice |-> 0,
      agentId |-> JsUndefined]]

\* what the ledger, the services and the runtime can answer
Answers ==
  \* values the minimum-rent-exemption query can answer
  [RentValues |-> {2282880, 2282881},
  \* stake.delegation.activationEpoch as the parsed account data carries it:
  \* a JSON number or a JSON string
   EpochValues |->
     {[t |-> "number", n |-> 0], [t |-> "number", n |-> 7],
      [t |-> "string", n |-> 0], [t |-> "string", n |-> 7]},
  \* the raw quote payloads the quote service answers with
   QuotePayloads |->
     {[inAmount |-> <<"1", "0", "0", "0", "0", "0", "0", "0", "0", "0">>,
       outAmount |-> <<"1", "5", "0", "0", "0", "0", "0", "0", "0">>]},
  \* balances the wallet account can have
   WalletBalances |-> {0, 1, 1999999999},
  \* the AgentInfo the service gives a registered agent
   AgentInfos |->
     {[id |-> JsString(<<"a", "1">>)], [id |-> JsString(<<"a", "2">>)]},
  \* signatures sendTransaction answers with
   Signatures |-> {"signature1", "signature2"},
  \* what confirmation.value.err holds when the transaction failed on chain
   TransactionErrors |->
     {JsString(<<"A", "c", "c", "o", "u", "n", "t", "I", "n", "U", "s", "e">>),
      JsString(<<>>)},
  \* the errors a ledger call can raise, by e.name: the account it asks for
  \* does not exist, or anything else
   RpcErrors |-> {"TokenAccountNotFoundError", "Error"},
  \* outcomes of an HTTP fetch: response.ok, a non-success status, a rejection
   HttpOutcomes |-> {"ok", "http error", "network error"},
  \* the non-success answers of a service: status, body text, and whether the
  \* body can be read (response.text() resolves)
   HttpErrors |->
     {[status |-> 429, body |-> <<"b", "u", "s", "y">>, readable |-> TRUE],
      [status |-> 500, body |-> <<>>, readable |-> TRUE],
      [status |-> 502, body |-> <<"b", "u", "s", "y">>, readable |-> FALSE]},
  \* what getAccount(connection, destAta) can answer
   GetAccountOutcomes |->
     {"found", "TokenAccountNotFoundError", "TokenInvalidAccountOwnerError",
      "network error"},
  \* account.amount of a token account
   TokenAmounts |-> {0, 5},
  \* the mints the price service tracks, in the order it lists them
   TrackedMints |-> <<SOL_MINT, USDC_MINT, OTHER_ADDRESS>>,
  \* the message of the TypeError of tokenOrMint.toUpperCase() on a value
  \* that has no such method
   NotAFunction |->
     <<"t", "o", "k", "e", "n", "O", "r", "M", "i", "n", "t", ".", "t", "o",
       "U", "p", "p", "e", "r", "C", "a", "s", "e", " ", "i", "s", " ", "n",
       "o", "t", " ", "a", " ", "f", "u", "n", "c", "t", "i", "o", "n">>,
  \* the message of a rejected fetch
   FetchFailed |->
     <<"f", "e", "t", "c", "h", " ", "f", "a", "i", "l", "e", "d">>]

\* the accounts a scan of the stake program can find: lamports and
\* account.data.parsed.info.stake?.delegation
ParsedAccounts ==
  LET Delegations ==
        {Blank.NoDelegation}
          \cup {[present |-> TRUE, voter |-> JITO_VOTE,
                 activationEpoch |-> e] : e \in Answers.EpochValues}
  IN  {[lamports |-> l, delegation |-> d] :
         l \in {0, MaxLamports}, d \in Delegations}

RECURSIVE SeqsUpTo(_, _)
SeqsUpTo(S, n) ==
  IF n = 0 THEN {<<>>}
  ELSE SeqsUpTo(S, n - 1)
         \cup {Append(t, x) : t \in SeqsUpTo(S, n - 1), x \in S}

(***************************************************************************)
(* Processes: the server, the command line, a program that calls the       *)
(* library, a program that holds an AgentDEX client.                       *)
(***************************************************************************)
\* what a request, a command line or a call can carry, and what the process
\* finds when it starts
Inputs ==
  \* symbols in several letter cases, table addresses and non-table strings
  [MintInputs |->
     TableKeys(TOKENS) \cup TableValues(TOKENS)
       \cup {toLowerCase(k) : k \in TableKeys(TOKENS)}
       \cup {<<"S", "o", "l">>, <<"u", "S", "d", "C">>, <<>>,
             <<"S", "O", "L", " ">>, <<"x", "y", "z">>,
             <<"c", "o", "n", "s", "t", "r", "u", "c", "t", "o", "r">>,
             <<"C", "O", "N", "S", "T", "R", "U", "C", "T", "O", "R">>,
             <<"_", "_", "p", "r", "o", "t", "o", "_", "_">>,
             <<"t", "o", "S", "t", "r", "i", "n", "g">>,
             OTHER_ADDRESS},
   ValidatorInputs |->
     TableKeys(VALIDATORS) \cup TableValues(VALIDATORS)
       \cup {toUpperCase(k) : k \in TableKeys(VALIDATORS)}
       \cup {<<"J", "i", "t", "o">>, <<>>, <<"j", "i", "t", "o", " ">>,
             <<"x", "y", "z">>,
             <<"c", "o", "n", "s", "t", "r", "u", "c", "t", "o", "r">>,
             <<"C", "O", "N", "S", "T", "R", "U", "C", "T", "O", "R">>,
             <<"_", "_", "p", "r", "o", "t", "o", "_", "_">>,
             <<"t", "o", "S", "t", "r", "i", "n", "g">>,
             OTHER_ADDRESS},
  \* body.amount as the text of the JSON value; <<>> is a missing field
   AmountTexts |->
     {<<"2">>, <<"0", ".", "3">>, <<"1", ".", "0", "0", "5">>,
      <<"1", ".", "9", "9", "9", "9", "9", "9", "9", "9", "9", "1">>,
      <<"a", "b", "c">>, <<>>},
  \* body.from / body.to of the swap routes
   SwapSymbols |->
     {SOL, <<"s", "o", "l">>, SOL_MINT, USDC, USDC_MINT, OTHER_ADDRESS, <<>>},
  \* body.to of the transfer routes, body.stakeAccount of the stake routes
   AddressInputs |-> {OTHER_ADDRESS, <<"x", "y", "z">>, <<>>},
  \* body.validator
   StakeValidators |->
     {<<"j", "i", "t", "o">>, JITO_VOTE,
      <<"c", "o", "n", "s", "t", "r", "u", "c", "t", "o", "r">>, <<>>},
  \* the token of GET /price and of the price command
   PriceTokens |->
     {SOL, OTHER_ADDRESS,
      <<"c", "o", "n", "s", "t", "r", "u", "c", "t", "o", "r">>, <<>>},
  \* the arguments of the swap commands
   CliSymbols |-> {SOL, USDC_MINT, <<>>},
  \* the amount argument of the transfer and stake commands
   CliAmounts |-> {<<"2">>, <<"0", ".", "3">>, <<"2", "x">>, <<>>},
  \* the argument after --token; <<>> when the flag is not given
   CliTokenMints |-> {<<>>, USDC_MINT},
  \* body.slippage; 0 stands for a missing field
   Slippages |-> {0, 100},
  \* Keypair.generate() draws the one-time stake account key from these
   StakeKeys |-> {"stakeKey1", "stakeKey2"},
  \* body.amount of the swap routes
   SwapAmounts |->
     {<<"1", "0", "0", "0", "0", "0", "0", "0", "0", "0">>, <<>>},
  \* body.mint of /transfer/token
   MintAddresses |-> {USDC_MINT, <<"x", "y", "z">>, <<>>},
  \* the routes of the server that read a JSON body
   BodyRoutes |->
     {"getQuote", "swap", "sendSol", "sendToken", "stake", "unstake",
      "withdraw"},
  \* the commands of the CLI that call nothing remote
   LocalCommands |-> {"wallet address", "tokens", "stake validators", "help"},
  \* the kinds of process
   Programs |-> {"server", "cli", "library", "agentdex"},
  \* a secret key: the bytes of the seed followed by the bytes of the public key
   SecretKeys |-> {<<7, 10>>, <<255, 4>>},
  \* the wallet path before the process starts: nothing, a key file written by
  \* another tool with the permissions of the umask, or a file that holds no key
   InitialFiles |->
     {Blank.NoFile,
      [exists |-> TRUE, content |-> <<"[", "2", "5", "5", ",", "4", "]">>,
       mode |-> "644"],
      [exists |-> TRUE, content |-> <<"{", "}">>, mode |-> "644"]},
  \* config.agentId of the AgentDEX client: optional
   ConfigAgentIds |-> {JsUndefined, JsString(<<"a", "0">>)},
  \* request targets that name no route: a path, and the target // that a
  \* client may send as well
   OtherUrls |-> {<<"/", "x">>, <<"/", "/">>, <<"/", "/", "x">>},
   OrderIds |-> {<<"o", "1">>}]

\* keypair.publicKey.toBase58(): the address names the public half of the key
AddressOf(secretKey) ==
  SubSeq(secretKey, (Len(secretKey) \div 2) + 1, Len(secretKey))

RECURSIVE JoinNumbers(_)
\* Array.prototype.join of the bytes, as JSON.stringify writes an array
JoinNumbers(bytes) ==
  IF bytes = <<>> THEN <<>>
  ELSE IF Len(bytes) = 1 THEN IntToText(bytes[1])
  ELSE IntToText(bytes[1]) \o <<",">> \o JoinNumbers(Tail(bytes))

\* JSON.stringify(Array.from(this.keypair.secretKey))
JsonStringifyBytes(bytes) == <<"[">> \o JoinNumbers(bytes) \o <<"]">>

RECURSIVE SplitNumbers(_, _)
\* the elements of the text between the brackets, split at the commas; the
\* element being read is cur
SplitNumbers(text, cur) ==
  IF text = <<>> THEN <<cur>>
  ELSE IF Head(text) = "," THEN <<cur>> \o SplitNumbers(Tail(text), <<>>)
  ELSE SplitNumbers(Tail(text), Append(cur, Head(text)))

\* JSON.parse(text) for the texts a wallet file holds: an array of numbers,
\* an object, or something that does not parse
JsonParse(text) ==
  IF Len(text) >= 2 /\ text[1] = "[" /\ text[Len(text)] = "]"
  THEN LET inner == SubSeq(text, 2, Len(text) - 1)
           parts == IF inner = <<>> THEN <<>> ELSE SplitNumbers(inner, <<>>)
       IN  IF \A i \in 1..Len(parts) :
                parts[i] # <<>> /\ IsIntegerText(parts[i])
           THEN [t |-> "array",
                 v |-> [i \in 1..Len(parts) |-> TextToInt(parts[i])]]
           ELSE [t |-> "SyntaxError", v |-> <<>>]
  ELSE IF Len(text) >= 2 /\ text[1] = "{" /\ text[Len(text)] = "}"
  THEN [t |-> "object", v |-> <<>>]
  ELSE [t |-> "SyntaxError", v |-> <<>>]

\* Wallet.fromPrivateKey(privateKey) for what JSON.parse returned: the address
\* of the wallet, or the error thrown
fromPrivateKey(data) ==
  LET \* Uint8Array.from(array): every element modulo 256
      Uint8ArrayFrom(array) == [i \in 1..Len(array) |-> array[i] % 256]
  IN  IF data.t = "array"
      THEN IF Uint8ArrayFrom(data.v) \in Inputs.SecretKeys
           THEN [ok |-> TRUE, address |-> AddressOf(Uint8ArrayFrom(data.v)),
                 error |-> ""]
           ELSE [ok |-> FALSE, address |-> <<>>, error |-> "bad secret key"]
      ELSE [ok |-> FALSE, address |-> <<>>,
            error |-> "Private key must be base58 string or byte array"]

\* Wallet.fromFile(filePath): readFileSync, JSON.parse, fromPrivateKey
fromFile(f) ==
  IF ~f.exists
  THEN [ok |-> FALSE, address |-> <<>>, error |-> "ENOENT"]
  ELSE IF JsonParse(f.content).t = "SyntaxError"
  THEN [ok |-> FALSE, address |-> <<>>, error |-> "SyntaxError"]
  ELSE fromPrivateKey(JsonParse(f.content))

\* loadWallet of the server: the file exists and Wallet.fromFile returned
LoadsWallet(f) == f.exists /\ fromFile(f).ok

(***************************************************************************)
(* State: the program the process runs, what that process keeps between   *)
(* invocations, one invocation (a route of handleRequest, a command of     *)
(* main, or a library call), its position, its locals, what it sent to the *)
(* collaborators, and the part of the ledger it reads and writes.          *)
(***************************************************************************)
VARIABLES
  pc,            \* where the invocation is suspended; "idle" before a call
  op,            \* the method the invocation runs
  args,          \* its arguments (the request body fields)
  local,         \* the local variables of the method
  query,         \* the URLSearchParams of the quote GET
  quote,         \* the record getQuote returned
  transaction,   \* the instructions added to the Transaction so far
  submitted,     \* the transactions handed to the ledger, with their signers
  trace,         \* the remote calls and signing steps made, in order
  replies,       \* what the collaborators answered to the remote calls
  result,        \* the response of the invocation
  ledgerStake,   \* lamports of the stake account on the ledger
  ledgerAta,     \* whether the destination token account exists
  balanceBefore, \* lamports of the stake account just before a withdrawal ran
  caller,        \* the entry point the process runs
  walletLoaded,  \* server: the module variable wallet is not null
  file,          \* the wallet file at the wallet path
  agentId,       \* the field agentId of the AgentDEX client
  request        \* the HTTP request the AgentDEX client sent

vars ==
  <<pc, op, args, local, query, quote, transaction, submitted, trace, replies,
    result, ledgerStake, ledgerAta, balanceBefore, caller, walletLoaded, file,
    agentId, request>>

\* what a process keeps from one invocation to the next
process == <<caller, walletLoaded, file, agentId>>

ledger == <<ledgerStake, ledgerAta, balanceBefore>>

\* json(res, data, status): res.writeHead(status), res.end(JSON.stringify)
json(data, status) ==
  [data EXCEPT !.http = status, !.written = data.written + 1,
               !.out = IF data.status = "error" THEN "envelope" ELSE "json"]

\* an error with its message, and the step of the invocation that raised it
Raised(step, message) ==
  [Blank.NoResult EXCEPT !.status = "error", !.error = message, !.failedAt = step]

\* error(res, message, status): json(res, {success: false, error}, status)
error(step, message, status) == json(Raised(step, message), status)

\* the invocation returns: json(res, {success: true, ...}) of handleRequest,
\* console.log(JSON.stringify(...)) of the CLI, the value itself otherwise
Success(r) ==
  CASE caller = "server" -> json([r EXCEPT !.status = "ok"], 200)
    [] caller = "cli" -> [r EXCEPT !.status = "ok", !.out = "json"]
    [] OTHER -> [r EXCEPT !.status = "ok"]

\* the invocation throws: the catch of handleRequest answers
\* error(res, e.message, 500); the catch of the CLI prints the envelope and
\* calls process.exit(1); a library caller gets the error itself
Failure(step, message) ==
  CASE caller = "server" -> error(step, message, 500)
    [] caller = "cli" ->
         [Raised(step, message) EXCEPT !.out = "envelope", !.exit = 1]
    [] OTHER -> Raised(step, message)

Init ==
  /\ pc = "idle"
  /\ op = "none"
  /\ args = Blank.NoArgs
  /\ local = Blank.NoLocal
  /\ query = Blank.NoQuery
  /\ quote = Blank.NoQuote
  /\ transaction = <<>>
  /\ submitted = <<>>
  /\ trace = <<>>
  /\ replies = <<>>
  /\ result = Blank.NoResult
  /\ ledgerStake = 1
  /\ ledgerAta = FALSE
  /\ balanceBefore = 0
  /\ request = Blank.NoRequest
  /\ caller \in Inputs.Programs
  /\ file \in IF caller = "agentdex" THEN {Blank.NoFile} ELSE Inputs.InitialFiles
  /\ walletLoaded = (caller = "server" /\ LoadsWallet(file))
  /\ agentId \in IF caller = "agentdex" THEN Inputs.ConfigAgentIds
                 ELSE {JsUndefined}

\* the invocation has answered; the next one starts from a clean slate
Finish ==
  /\ pc = "done"
  /\ pc' = "idle"
  /\ op' = "none"
  /\ args' = Blank.NoArgs
  /\ local' = Blank.NoLocal
  /\ query' = Blank.NoQuery
  /\ quote' = Blank.NoQuote
  /\ transaction' = <<>>
  /\ submitted' = <<>>
  /\ trace' = <<>>
  /\ replies' = <<>>
  /\ result' = Blank.NoResult
  /\ balanceBefore' = 0
  /\ request' = Blank.NoRequest
  /\ UNCHANGED <<ledgerStake, ledgerAta, process>>

(***************************************************************************)
(* The wallet file                                                         *)
(***************************************************************************)
\* fs.writeFileSync(filePath, text): the text replaces the content; a file
\* that exists keeps its mode, a new one gets the mode the usual umask leaves
writeFileSync(f, text) ==
  [exists |-> TRUE, content |-> text,
   mode |-> IF f.exists THEN f.mode ELSE "644"]

\* a chmod that does nothing
chmodSync_Skipped(f, mode) == f

\* fs.chmodSync(filePath, mode)
chmodSync(f, mode) == [f EXCEPT !.mode = mode]

\* wallet.save(filePath) up to chmodSync: the directory is made when it is
\* missing, then the secret key is written as a JSON array of its bytes
save(secretKey, ok) ==
  /\ op' = "save"
  /\ local' = [Blank.NoLocal EXCEPT !.keypair = secretKey]
  /\ IF ok
     THEN /\ pc' = "chmod"
          /\ file' = writeFileSync(file, JsonStringifyBytes(secretKey))
          /\ trace' = <<"writeFileSync">>
          /\ UNCHANGED result
     ELSE /\ pc' = "done"
          /\ result' = Failure("write", "EACCES")
          /\ UNCHANGED <<file, trace>>
  /\ UNCHANGED <<args, query, quote, transaction, submitted, ledger>>
  /\ UNCHANGED <<caller, walletLoaded, agentId, request>>

\* Wallet.create(rpcUrl).save(filePath) called by a program using the library
CallSave(secretKey, ok) ==
  /\ UNCHANGED replies
  /\ pc = "idle"
  /\ caller = "library"
  /\ save(secretKey, ok)

\* solana-agent wallet create
CliWalletCreate(secretKey, ok) ==
  /\ UNCHANGED replies
  /\ pc = "idle"
  /\ caller = "cli"
  /\ save(secretKey, ok)

\* fs.chmodSync(filePath, 0o600) returns or throws; save returns filePath
ChmodReturns(ok) ==
  /\ replies' = Append(replies, IF ok THEN "ok" ELSE "EPERM")
  /\ pc = "chmod"
  /\ pc' = "done"
  /\ IF ok
     THEN /\ file' = chmodSync(file, "600")
          /\ result' = Success([Blank.NoResult EXCEPT
                                  !.address = AddressOf(local.keypair)])
     ELSE /\ result' = Failure("chmod", "EPERM")
          /\ UNCHANGED file
  /\ UNCHANGED <<op, args, local, query, quote, transaction, submitted, trace,
                 ledger>>
  /\ UNCHANGED <<caller, walletLoaded, agentId, request>>

\* Wallet.fromFile(filePath) called by a program using the library
CallFromFile ==
  /\ UNCHANGED replies
  /\ pc = "idle"
  /\ caller = "library"
  /\ pc' = "done"
  /\ op' = "fromFile"
  /\ result' = IF fromFile(file).ok
               THEN Success([Blank.NoResult EXCEPT !.address = fromFile(file).address])
               ELSE Failure("wallet", fromFile(file).error)
  /\ UNCHANGED <<args, local, query, quote, transaction, submitted, trace,
                 ledger>>
  /\ UNCHANGED <<process, request>>

(***************************************************************************)
(* Alias resolution                                                        *)
(***************************************************************************)
\* swapper.resolveMint(x)
CallResolveMint(x) ==
  /\ UNCHANGED replies
  /\ pc = "idle"
  /\ pc' = "resolved"
  /\ op' = "resolveMint"
  /\ args' = [Blank.NoArgs EXCEPT !.x = x]
  /\ result' = Success([Blank.NoResult EXCEPT !.value = resolveMint(JsString(x))])
  /\ UNCHANGED <<local, query, quote, transaction, submitted, trace, ledger>>
  /\ caller = "library"
  /\ UNCHANGED <<process, request>>

\* staking.resolveValidator(x)
CallResolveValidator(x) ==
  /\ UNCHANGED replies
  /\ pc = "idle"
  /\ pc' = "resolved"
  /\ op' = "resolveValidator"
  /\ args' = [Blank.NoArgs EXCEPT !.x = x]
  /\ result' = Success([Blank.NoResult EXCEPT !.value = resolveValidator(JsString(x))])
  /\ UNCHANGED <<local, query, quote, transaction, submitted, trace, ledger>>
  /\ caller = "library"
  /\ UNCHANGED <<process, request>>

\* the resolver applied to what it returned: resolve(resolve(x))
ResolveAgain ==
  /\ UNCHANGED replies
  /\ pc = "resolved"
  /\ pc' = "done"
  /\ result' = [result EXCEPT !.again =
                  IF op = "resolveMint" THEN resolveMint(result.value)
                  ELSE resolveValidator(result.value)]
  /\ UNCHANGED <<op, args, local, query, quote, transaction, submitted, trace,
                 ledger>>
  /\ UNCHANGED <<process, request>>

(***************************************************************************)
(* Quote and swap                                                          *)
(***************************************************************************)
\* `Transaction failed: ${JSON.stringify(confirmation.value.err)}`
TransactionFailed(err) ==
  LET \* JSON.stringify of null or of a string
      JsonStringify(v) ==
        IF v = JsNull THEN <<"n", "u", "l", "l">>
        ELSE <<"\"">> \o v.s \o <<"\"">>
  IN  <<"T", "r", "a", "n", "s", "a", "c", "t", "i", "o", "n", " ", "f", "a",
        "i", "l", "e", "d", ":", " ">>
      \o JsonStringify(err)

\* a confirmation whose error is never looked at
HasErr_Ignored(confirmation) == FALSE

\* if (confirmation.value.err)
HasErr(confirmation) == confirmation.err # JsNull

\* the Response of an outcome: a success carries status 200
ResponseOf(r, e) ==
  IF r = "http error" THEN e
  ELSE IF r = "ok" THEN [status |-> 200, body |-> <<>>, readable |-> TRUE]
  ELSE Blank.NoResponse

\* `Quote failed: ${error}`
QuoteFailed(text) ==
    <<"Q", "u", "o", "t", "e", " ", "f", "a", "i", "l", "e", "d", ":", " ">>
    \o text

\* `Swap transaction failed: ${error}`
SwapTransactionFailed(text) ==
    <<"S", "w", "a", "p", " ", "t", "r", "a", "n", "s", "a", "c", "t", "i",
      "o", "n", " ", "f", "a", "i", "l", "e", "d", ":", " ">>
    \o text

\* the message of the error a failed status check of the Swapper throws:
\* the wrapped body text, or the error of response.text() when it rejects
SwapperHttpError(wrap, e) ==
  IF e.readable THEN wrap
  ELSE <<"b", "o", "d", "y", " ", "r", "e", "a", "d", " ", "f", "a", "i",
         "l", "e", "d">>

\* `Could not get price for ${tokenMint}: ${e.message}`
CouldNotGetPrice(tokenMint, message) ==
    <<"C", "o", "u", "l", "d", " ", "n", "o", "t", " ", "g", "e", "t", " ",
      "p", "r", "i", "c", "e", " ", "f", "o", "r", " ">>
    \o tokenMint \o <<":", " ">> \o message

\* a status check that only notices a rejected fetch
ResponseOk_Unchecked(r) == r # "network error"

\* response.ok
ResponseOk(r) == r = "ok"

\* new URLSearchParams({inputMint, outputMint, amount, slippageBps})
QuoteParams(inputMintAddr, outputMintAddr, amount, slippageBps) ==
  [inputMint |-> inputMintAddr.s, outputMint |-> outputMintAddr.s,
   amount |-> amount, slippageBps |-> IntToText(slippageBps)]

\* getQuote up to its fetch: resolve both mints, build the query, send the GET
StartQuote(o, from, to, amount, slippage) ==
  /\ pc' = "quote"
  /\ op' = o
  /\ local' = [Blank.NoLocal EXCEPT !.inputMintAddr = resolveMint(JsString(from)),
                              !.outputMintAddr = resolveMint(JsString(to))]
  /\ query' = QuoteParams(resolveMint(JsString(from)),
                          resolveMint(JsString(to)), amount,
                          IF slippage = 0 THEN DefaultSlippageBps ELSE slippage)
  /\ trace' = <<"quote GET">>
  /\ UNCHANGED <<quote, transaction, submitted, result, ledger>>

\* the fields a route or a command requires of its request
Required(o) ==
  CASE o \in {"getQuote", "swap"} -> {"from", "to", "amount"}
    [] o = "getPrice" -> {"x"}
    [] o = "sendSol" -> {"to", "amount"}
    [] o = "sendToken" -> {"to", "amount", "mint"}
    [] o = "stake" -> {"validator", "amount"}
    [] o \in {"unstake", "withdraw"} -> {"stakeAccount"}
    [] OTHER -> {}

\* a validation that lets every request through
Lacks_Nothing(o, a) == FALSE

\* if (!body.from || !body.to || !body.amount) and its like
Lacks(o, a) == \E f \in Required(o) : a[f] = <<>>

\* getPrice up to the fetch of its getQuote(mint, 'USDC', amount.toString());
\* what getQuote throws is wrapped
StartPrice(token) ==
  LET mint   == resolveMint(JsString(token))
      amount == IF mint = JsString(SOL_MINT) THEN Pow10(9) ELSE Pow10(6)
  IN  /\ op' = "getPrice"
      /\ IF resolveMint(mint) = JsTypeError
         THEN /\ pc' = "done"
              /\ result' = [Failure("quote", "Could not get price") EXCEPT
                              !.message = CouldNotGetPrice(token, Answers.NotAFunction)]
              /\ UNCHANGED <<local, query, trace>>
         ELSE /\ pc' = "quote"
              /\ local' = [Blank.NoLocal EXCEPT
                             !.inputMintAddr = resolveMint(mint),
                             !.outputMintAddr = resolveMint(JsString(USDC))]
              /\ query' = QuoteParams(resolveMint(mint),
                                      resolveMint(JsString(USDC)),
                                      IntToText(amount), DefaultSlippageBps)
              /\ trace' = <<"quote GET">>
              /\ UNCHANGED result
      /\ UNCHANGED <<quote, transaction, submitted, ledger>>

\* a route rejects a body that lacks a required field:
\* error(res, 'Missing required fields: ...') with the default status 400
Reject(o) ==
  /\ pc' = "done"
  /\ op' = o
  /\ result' = error("validation", "Missing required fields", 400)
  /\ UNCHANGED <<local, query, quote, transaction, submitted, trace,
                 ledger>>

\* if (!wallet) return error(res, 'Wallet not loaded', 500)
NotLoaded(o) ==
  /\ pc' = "done"
  /\ op' = o
  /\ result' = error("wallet", "Wallet not loaded", 500)
  /\ UNCHANGED <<local, query, quote, transaction, submitted, trace,
                 ledger>>

\* a command of the CLI ends at its usage text:
\* console.error('Usage: ...'); process.exit(1)
RejectUsage(o) ==
  /\ pc' = "done"
  /\ op' = o
  /\ result' = [Raised("validation", "Usage") EXCEPT !.out = "text",
                                                     !.exit = 1]
  /\ UNCHANGED <<local, query, quote, transaction, submitted, trace,
                 ledger>>

\* loadWallet of the CLI does not return: the file is missing (a text and
\* process.exit(1)), or Wallet.fromFile throws into the catch of main
CliNoWallet(o) ==
  /\ pc' = "done"
  /\ op' = o
  /\ result' =
       IF ~file.exists
       THEN [Raised("wallet", "Wallet not found") EXCEPT !.out = "text",
                                                        !.exit = 1]
       ELSE Failure("wallet", fromFile(file).error)
  /\ UNCHANGED <<local, query, quote, transaction, submitted, trace,
                 ledger>>

\* new URL(url, base) throws for a target that starts an authority (//) and
\* names no host in it
URLThrows(url) ==
  /\ Len(url) >= 2 /\ url[1] = "/" /\ url[2] = "/"
  /\ Len(url) = 2 \/ url[3] \in {"/", "?", "#"}

\* a request for a target that is no route: new URL(req.url, ...) comes
\* before the try, so what it throws rejects handleRequest and nothing is
\* written; otherwise the wallet check, then 404
HandleOther(url) ==
  /\ UNCHANGED replies
  /\ pc = "idle"
  /\ caller = "server"
  /\ pc' = "done"
  /\ op' = "other"
  /\ args' = [Blank.NoArgs EXCEPT !.x = url]
  /\ result' = IF URLThrows(url) THEN Raised("url", "Invalid URL")
               ELSE IF ~walletLoaded
               THEN error("wallet", "Wallet not loaded", 500)
               ELSE error("route", "Not found", 404)
  /\ UNCHANGED <<local, query, quote, transaction, submitted, trace, ledger>>
  /\ UNCHANGED <<process, request>>

\* GET /health: answered before the wallet check, with the address of the
\* wallet or null
HandleHealth ==
  /\ UNCHANGED replies
  /\ pc = "idle"
  /\ caller = "server"
  /\ UNCHANGED args
  /\ pc' = "done"
  /\ op' = "health"
  /\ result' = Success([Blank.NoResult EXCEPT
                          !.address = IF walletLoaded
                                      THEN fromFile(file).address
                                      ELSE <<>>])
  /\ UNCHANGED <<local, query, quote, transaction, submitted, trace, ledger>>
  /\ UNCHANGED <<process, request>>

\* a POST whose body is not JSON: parseBody rejects with 'Invalid JSON'
HandleInvalidJson(route) ==
  /\ UNCHANGED replies
  /\ pc = "idle"
  /\ caller = "server"
  /\ UNCHANGED args
  /\ IF ~walletLoaded
     THEN NotLoaded(route)
     ELSE /\ pc' = "done"
          /\ op' = route
          /\ result' = Failure("parseBody", "Invalid JSON")
          /\ UNCHANGED <<local, query, quote, transaction, submitted, trace,
                         ledger>>
  /\ UNCHANGED <<process, request>>

\* POST /swap/quote
HandleSwapQuote(from, to, amount, slippage) ==
  /\ UNCHANGED replies
  /\ pc = "idle"
  /\ args' = [Blank.NoArgs EXCEPT !.from = from, !.to = to, !.amount = amount,
                            !.slippage = slippage]
  /\ IF ~walletLoaded
     THEN NotLoaded("getQuote")
     ELSE IF Lacks("getQuote", args')
     THEN Reject("getQuote")
     ELSE StartQuote("getQuote", from, to, amount, slippage)
  /\ caller = "server"
  /\ UNCHANGED <<process, request>>

\* POST /swap/execute
HandleSwapExecute(from, to, amount, slippage) ==
  /\ UNCHANGED replies
  /\ pc = "idle"
  /\ args' = [Blank.NoArgs EXCEPT !.from = from, !.to = to, !.amount = amount,
                            !.slippage = slippage]
  /\ IF ~walletLoaded
     THEN NotLoaded("swap")
     ELSE IF Lacks("swap", args')
     THEN Reject("swap")
     ELSE StartQuote("swap", from, to, amount, slippage)
  /\ caller = "server"
  /\ UNCHANGED <<process, request>>

\* GET /price?token=
HandlePrice(token) ==
  /\ UNCHANGED replies
  /\ pc = "idle"
  /\ args' = [Blank.NoArgs EXCEPT !.x = token]
  /\ IF ~walletLoaded
     THEN NotLoaded("getPrice")
     ELSE IF Lacks("getPrice", args')
     THEN Reject("getPrice")
     ELSE StartPrice(token)
  /\ caller = "server"
  /\ UNCHANGED <<process, request>>

\* solana-agent swap quote <from> <to> <amount>
CliSwapQuote(from, to, amount) ==
  /\ UNCHANGED replies
  /\ pc = "idle"
  /\ args' = [Blank.NoArgs EXCEPT !.from = from, !.to = to, !.amount = amount]
  /\ IF ~LoadsWallet(file)
     THEN CliNoWallet("getQuote")
     ELSE IF Lacks("getQuote", args')
     THEN RejectUsage("getQuote")
     ELSE StartQuote("getQuote", from, to, amount, 0)
  /\ caller = "cli"
  /\ UNCHANGED <<process, request>>

\* solana-agent swap execute <from> <to> <amount>
CliSwapExecute(from, to, amount) ==
  /\ UNCHANGED replies
  /\ pc = "idle"
  /\ args' = [Blank.NoArgs EXCEPT !.from = from, !.to = to, !.amount = amount]
  /\ IF ~LoadsWallet(file)
     THEN CliNoWallet("swap")
     ELSE IF Lacks("swap", args')
     THEN RejectUsage("swap")
     ELSE StartQuote("swap", from, to, amount, 0)
  /\ caller = "cli"
  /\ UNCHANGED <<process, request>>

\* solana-agent price <token>: the argument is looked at before the wallet
CliPrice(token) ==
  /\ UNCHANGED replies
  /\ pc = "idle"
  /\ args' = [Blank.NoArgs EXCEPT !.x = token]
  /\ IF Lacks("getPrice", args')
     THEN RejectUsage("getPrice")
     ELSE IF ~LoadsWallet(file)
     THEN CliNoWallet("getPrice")
     ELSE StartPrice(token)
  /\ caller = "cli"
  /\ UNCHANGED <<process, request>>

\* an error that reaches the caller under another name
Throw_Renamed(step, message) ==
  /\ pc' = "done"
  /\ result' = Failure(step, "Error")

\* the invocation ends with a thrown error
Throw(step, message) ==
  /\ pc' = "done"
  /\ result' = Failure(step, message)

\* the quote GET answers: getQuote returns or throws; swap goes on to POST
QuoteResponse(r, payload, e) ==
  /\ replies' = Append(replies, r)
  /\ pc = "quote"
  /\ local' = [local EXCEPT !.response = ResponseOf(r, e)]
  /\ IF ResponseOk(r)
     THEN /\ quote' = [inputMint |-> local.inputMintAddr,
                       outputMint |-> local.outputMintAddr,
                       inAmount |-> payload.inAmount,
                       outAmount |-> payload.outAmount]
          /\ IF op = "getQuote"
             THEN /\ pc' = "done"
                  /\ result' = Success([Blank.NoResult EXCEPT
                                 !.inputMint = local.inputMintAddr,
                                 !.outputMint = local.outputMintAddr])
                  /\ UNCHANGED trace
             ELSE IF op = "getPrice"
             THEN /\ pc' = "done"
                  /\ result' = Success([Blank.NoResult EXCEPT !.amount =
                                 IntOver(TextToInt(payload.outAmount),
                                         Pow10(6))])
                  /\ UNCHANGED trace
             ELSE /\ pc' = "swapBuild"
                  /\ trace' = Append(trace, "swap POST")
                  /\ UNCHANGED result
     ELSE /\ pc' = "done"
          /\ result' =
               LET message == IF r = "http error"
                              THEN SwapperHttpError(QuoteFailed(e.body), e)
                              ELSE Answers.FetchFailed
               IN  IF op = "getPrice"
                   THEN [Failure("quote", "Could not get price") EXCEPT
                           !.message = CouldNotGetPrice(args.x, message)]
                   ELSE IF r = "http error"
                   THEN [Failure("quote", "Quote failed") EXCEPT
                           !.message = message]
                   ELSE [Failure("quote", "fetch failed") EXCEPT
                           !.message = message]
          /\ UNCHANGED <<quote, trace>>
  /\ UNCHANGED <<op, args, query, transaction, submitted, ledger>>
  /\ UNCHANGED <<process, request>>

\* a submission that is not resent and skips the preflight simulation
SendOptions_Bare == [maxRetries |-> 0, skipPreflight |-> TRUE]

\* the options swap hands to connection.sendTransaction
SendOptions == [maxRetries |-> 3, skipPreflight |-> FALSE]

\* the swap-build POST answers: deserialize, sign, sendTransaction
SwapBuildResponse(r, e) ==
  /\ replies' = Append(replies, r)
  /\ pc = "swapBuild"
  /\ local' = [local EXCEPT !.response = ResponseOf(r, e)]
  /\ IF ResponseOk(r)
     THEN /\ pc' = "send"
          /\ transaction' = <<[program |-> "swapTransaction",
                               lamports |-> JsInt(0), account |-> <<>>]>>
          /\ submitted' = <<[instructions |-> transaction',
                             signers |-> {"wallet"},
                             options |-> SendOptions]>>
          /\ trace' = trace \o <<"sign", "sendTransaction">>
          /\ UNCHANGED result
     ELSE /\ pc' = "done"
          /\ result' =
               IF r = "http error"
               THEN [Failure("swapBuild", "Swap transaction failed")
                       EXCEPT !.message =
                         SwapperHttpError(SwapTransactionFailed(e.body), e)]
               ELSE Failure("swapBuild", "fetch failed")
          /\ UNCHANGED <<transaction, submitted, trace>>
  /\ UNCHANGED <<op, args, query, quote, ledger>>
  /\ UNCHANGED <<process, request>>

\* a swap that returns the signature without waiting for the confirmation
confirmTransaction_NotAwaited(signature) ==
  /\ pc' = "done"
  /\ local' = [local EXCEPT !.signature = signature]
  /\ result' = Success([Blank.NoResult EXCEPT !.signature = signature])
  /\ UNCHANGED trace

\* await connection.confirmTransaction(signature, 'confirmed'): swap goes on
\* only when the confirmation is reported
confirmTransaction(signature) ==
  /\ pc' = "confirm"
  /\ local' = [local EXCEPT !.signature = signature]
  /\ trace' = Append(trace, "confirmTransaction")
  /\ UNCHANGED result

\* sendTransaction answers with a signature or rejects
SendResponse(r, signature) ==
  /\ replies' = Append(replies, r)
  /\ pc = "send"
  /\ IF r = "ok"
     THEN confirmTransaction(signature)
     ELSE /\ Throw("send", r)
          /\ UNCHANGED <<local, trace>>
  /\ UNCHANGED <<op, args, query, quote, transaction, submitted, ledger>>
  /\ UNCHANGED <<process, request>>

\* confirmTransaction answers: confirmation.value.err is null or an error
ConfirmResponse(r, err) ==
  /\ replies' = Append(replies, r)
  /\ pc = "confirm"
  /\ pc' = "done"
  /\ local' = [local EXCEPT !.confirmation =
                  [err |-> IF r = "err" THEN err ELSE JsNull]]
  /\ result' =
       IF r \in Answers.RpcErrors THEN Failure("confirm", r)
       ELSE IF HasErr(local'.confirmation)
       THEN [Failure("confirm", "Transaction failed") EXCEPT !.message =
               TransactionFailed(local'.confirmation.err)]
       ELSE Success([Blank.NoResult EXCEPT !.signature = local.signature,
                                     !.inputMint = quote.inputMint,
                                     !.outputMint = quote.outputMint,
                                     !.inAmount = quote.inAmount,
                                     !.outAmount = quote.outAmount])
  /\ UNCHANGED <<op, args, query, quote, transaction, submitted, trace,
                 ledger>>
  /\ UNCHANGED <<process, request>>

(***************************************************************************)
(* Transfers                                                               *)
(***************************************************************************)
Instruction(program, lamports, account) ==
  [program |-> program, lamports |-> lamports, account |-> account]

\* a submission that is left out when the same instructions went out before
Submit_Deduplicated(tx, signers) ==
  /\ pc' = "submit"
  /\ transaction' = tx
  /\ submitted' =
       IF \E i \in 1..Len(submitted) : submitted[i].instructions = tx
       THEN submitted
       ELSE Append(submitted, [instructions |-> tx, signers |-> signers])
  /\ trace' = Append(trace, "sendAndConfirmTransaction")

\* sendAndConfirmTransaction(connection, transaction, signers) is called
Submit(tx, signers) ==
  /\ pc' = "submit"
  /\ transaction' = tx
  /\ submitted' = Append(submitted, [instructions |-> tx, signers |-> signers])
  /\ trace' = Append(trace, "sendAndConfirmTransaction")

\* An instruction constructor of the SDK is handed the lamports as they are.
\* It encodes an integer; what it does with a number that is not an integer
\* (throw, or encode something) is the SDK's business, so both can happen.
SdkEncodes(lamports, accepts) == lamports.k = "int" \/ accepts

\* Transfer.sendSol(toAddress, amountSol) up to its submission
sendSol(toAddress, amountSol, accepts) ==
  IF ~IsPublicKey(toAddress)
  THEN /\ Throw("build", "Invalid public key input")
       /\ UNCHANGED <<local, transaction, submitted, trace>>
  ELSE IF ~SdkEncodes(ToLamports(amountSol), accepts)
  THEN /\ Throw("build", "RangeError")
       /\ local' = [Blank.NoLocal EXCEPT !.amountSol = amountSol,
                                   !.lamports = ToLamports(amountSol)]
       /\ UNCHANGED <<transaction, submitted, trace>>
  ELSE /\ local' = [Blank.NoLocal EXCEPT !.amountSol = amountSol,
                                   !.lamports = ToLamports(amountSol)]
       /\ Submit(<<Instruction("SystemProgram.transfer",
                               ToLamports(amountSol), toAddress)>>,
                 {"wallet"})
       /\ UNCHANGED result

\* POST /transfer/sol
HandleTransferSol(to, amount, accepts) ==
  /\ UNCHANGED replies
  /\ pc = "idle"
  /\ args' = [Blank.NoArgs EXCEPT !.to = to, !.amount = amount]
  /\ IF ~walletLoaded
     THEN NotLoaded("sendSol")
     ELSE IF Lacks("sendSol", args')
     THEN Reject("sendSol")
     ELSE /\ op' = "sendSol"
          /\ sendSol(to, parseFloat(amount), accepts)
          /\ UNCHANGED <<query, quote, ledger>>
  /\ caller = "server"
  /\ UNCHANGED <<process, request>>

\* Transfer.sendToken(toAddress, amount, mintAddress) up to getAccount
sendToken(toAddress, amount, mintAddress) ==
  IF ~IsPublicKey(toAddress) \/ ~IsPublicKey(mintAddress)
  THEN /\ Throw("build", "Invalid public key input")
       /\ UNCHANGED trace
  ELSE /\ pc' = "getAccount"
       /\ trace' = <<"getAccount">>
       /\ UNCHANGED result

\* POST /transfer/token
HandleTransferToken(to, amount, mint) ==
  /\ UNCHANGED replies
  /\ pc = "idle"
  /\ args' = [Blank.NoArgs EXCEPT !.to = to, !.amount = amount, !.mint = mint]
  /\ IF ~walletLoaded
     THEN NotLoaded("sendToken")
     ELSE IF Lacks("sendToken", args')
     THEN Reject("sendToken")
     ELSE /\ op' = "sendToken"
          /\ sendToken(to, amount, mint)
          /\ UNCHANGED <<local, query, quote, transaction, submitted, ledger>>
  /\ caller = "server"
  /\ UNCHANGED <<process, request>>

\* solana-agent transfer <to> <amount> [--token <mint>]: the amount goes to
\* sendSol as the text it is, and amountSol * LAMPORTS_PER_SOL converts it
CliTransfer(to, amount, tokenMint, accepts) ==
  /\ UNCHANGED replies
  /\ pc = "idle"
  /\ args' = [Blank.NoArgs EXCEPT !.to = to, !.amount = amount, !.mint = tokenMint]
  /\ LET o == IF tokenMint = <<>> THEN "sendSol" ELSE "sendToken"
     IN  IF ~LoadsWallet(file)
         THEN CliNoWallet(o)
         ELSE IF Lacks(o, args')
         THEN RejectUsage(o)
         ELSE /\ op' = o
              /\ IF tokenMint = <<>>
                 THEN sendSol(to, ToNumber(amount), accepts)
                 ELSE /\ sendToken(to, amount, tokenMint)
                      /\ UNCHANGED <<local, transaction, submitted>>
              /\ UNCHANGED <<query, quote, ledger>>
  /\ caller = "cli"
  /\ UNCHANGED <<process, request>>

\* a catch that takes every error for a missing account
IsNotFound_AnyError(r) == r # "found"

\* the catch of sendToken: e.name === 'TokenAccountNotFoundError'
IsNotFound(r) == r = "TokenAccountNotFoundError"

\* the ledger answers getAccount(connection, destAta) of sendToken with
\* what it holds at that moment; the answer is on its way to the caller
GetAccountAnswer(r) ==
  /\ pc = "getAccount"
  /\ r = "found" => ledgerAta
  /\ r = "TokenAccountNotFoundError" => ~ledgerAta
  /\ pc' = "gotAccount"
  /\ replies' = Append(replies, r)
  /\ local' = [local EXCEPT !.account = r]
  /\ UNCHANGED <<op, args, query, quote, transaction, submitted, trace,
                 result, ledger>>
  /\ UNCHANGED <<process, request>>

\* await getAccount(...) resumes in sendToken with what the ledger answered:
\* the catch, the instructions, sendAndConfirmTransaction
GetAccountResponse ==
  LET r == local.account
  IN
  /\ pc = "gotAccount"
  /\ UNCHANGED replies
  /\ IF r # "found" /\ ~IsNotFound(r)
     THEN /\ Throw("getAccount", r)
          /\ UNCHANGED <<transaction, submitted, trace>>
     ELSE IF ~IsIntegerText(args.amount)
     THEN /\ Throw("build", "SyntaxError")
          /\ transaction' =
               IF r # "found"
               THEN <<Instruction("createAssociatedTokenAccount", JsInt(0),
                                  args.to)>>
               ELSE <<>>
          /\ UNCHANGED <<submitted, trace>>
     ELSE /\ Submit((IF r # "found"
                     THEN <<Instruction("createAssociatedTokenAccount",
                                        JsInt(0), args.to)>>
                     ELSE <<>>)
                      \o <<Instruction("createTransfer",
                                       JsInt(TextToInt(args.amount)),
                                       args.to)>>,
                    {"wallet"})
          /\ UNCHANGED result
  /\ UNCHANGED <<op, args, local, query, quote, ledger>>
  /\ UNCHANGED <<process, request>>

\* wallet.getTokenBalance(mintAddress) up to getAccount; new PublicKey is
\* inside the try, and its error is not a TokenAccountNotFoundError
CallGetTokenBalance(mintAddress) ==
  /\ UNCHANGED replies
  /\ pc = "idle"
  /\ op' = "getTokenBalance"
  /\ args' = [Blank.NoArgs EXCEPT !.mint = mintAddress]
  /\ IF ~IsPublicKey(mintAddress)
     THEN /\ Throw("build", "Invalid public key input")
          /\ UNCHANGED trace
     ELSE /\ pc' = "tokenAccount"
          /\ trace' = <<"getAccount">>
          /\ UNCHANGED result
  /\ UNCHANGED <<local, query, quote, transaction, submitted, ledger>>
  /\ caller = "library"
  /\ UNCHANGED <<process, request>>

\* getAccount answers: Number(account.amount), 0 for an account that does
\* not exist, and any other error again
TokenBalanceResponse(r, amount) ==
  /\ replies' = Append(replies, r)
  /\ pc = "tokenAccount"
  /\ pc' = "done"
  /\ result' =
       IF r = "found"
       THEN Success([Blank.NoResult EXCEPT !.amount = IntOver(amount, 1)])
       ELSE IF IsNotFound(r)
       THEN Success([Blank.NoResult EXCEPT !.amount = Zero])
       ELSE Failure("getAccount", r)
  /\ UNCHANGED <<op, args, local, query, quote, transaction, submitted, trace,
                 ledger>>
  /\ UNCHANGED <<process, request>>

(***************************************************************************)
(* Staking                                                                 *)
(***************************************************************************)
\* Staking.stake(validatorVoteAccount, amountSol) up to the rent query
stake(validatorVoteAccount, amountSol, key) ==
  LET v == resolveValidator(JsString(validatorVoteAccount))
  IN  IF v.t # "string" \/ ~IsPublicKey(v.s)
      THEN /\ Throw("build", "Invalid public key input")
           /\ UNCHANGED <<local, trace>>
      ELSE /\ pc' = "rent"
           /\ local' = [Blank.NoLocal EXCEPT !.amountSol = amountSol,
                                       !.lamports = ToLamports(amountSol),
                                       !.voteAccount = v.s,
                                       !.stakeAccount = key]
           /\ trace' = <<"getMinimumBalanceForRentExemption">>
           /\ UNCHANGED result

\* POST /stake/delegate
HandleStakeDelegate(validator, amount, key) ==
  /\ UNCHANGED replies
  /\ pc = "idle"
  /\ args' = [Blank.NoArgs EXCEPT !.validator = validator, !.amount = amount]
  /\ IF ~walletLoaded
     THEN NotLoaded("stake")
     ELSE IF Lacks("stake", args')
     THEN Reject("stake")
     ELSE /\ op' = "stake"
          /\ stake(validator, parseFloat(amount), key)
          /\ UNCHANGED <<query, quote, transaction, submitted, ledger>>
  /\ caller = "server"
  /\ UNCHANGED <<process, request>>

\* a funding that leaves the rent exemption out
TotalLamports_NoRent(lamports, rentExemption) == lamports

\* const totalLamports = lamports + rentExemption
TotalLamports(lamports, rentExemption) == JsPlus(lamports, rentExemption)

\* the rent query answers: fund with lamports + rentExemption, create the
\* stake account, delegate it, submit both instructions in one transaction
\* a transaction that delegates an account before it creates it
StakeTransaction_DelegateFirst(totalLamports, stakeAccount) ==
  <<Instruction("StakeProgram.delegate", JsInt(0), stakeAccount),
    Instruction("StakeProgram.createAccount", totalLamports, stakeAccount)>>

\* new Transaction().add(createStakeAccountTx).add(delegateTx): what
\* StakeProgram.createAccount built for the new stake account, then what
\* StakeProgram.delegate built for it
StakeTransaction(totalLamports, stakeAccount) ==
  <<Instruction("StakeProgram.createAccount", totalLamports, stakeAccount),
    Instruction("StakeProgram.delegate", JsInt(0), stakeAccount)>>

RentResponse(ok, rent, accepts, e) ==
  /\ replies' = Append(replies, IF ok THEN "ok" ELSE e)
  /\ pc = "rent"
  /\ IF ~ok
     THEN /\ Throw("rent", e)
          /\ UNCHANGED <<local, transaction, submitted, trace>>
     ELSE /\ local' = [local EXCEPT
                         !.rentExemption = JsInt(rent),
                         !.totalLamports = TotalLamports(local.lamports,
                                                         JsInt(rent))]
          /\ IF ~SdkEncodes(TotalLamports(local.lamports, JsInt(rent)), accepts)
             THEN /\ Throw("build", "RangeError")
                  /\ UNCHANGED <<transaction, submitted, trace>>
             ELSE /\ Submit(StakeTransaction(
                              TotalLamports(local.lamports, JsInt(rent)),
                              local.stakeAccount),
                            {"wallet", local.stakeAccount})
                  /\ UNCHANGED result
  /\ UNCHANGED <<op, args, query, quote, ledger>>
  /\ UNCHANGED <<process, request>>

EpochNull == [t |-> "null", n |-> 0]

\* the object getStakeAccounts maps one scanned account to
Summary(account) ==
  LET \* ToBoolean of an activationEpoch value: the number 0 is falsy, every
      \* non-empty string (also "0") is truthy
      EpochTruthy(e) ==
        CASE e.t = "number" -> e.n # 0
          [] e.t = "string" -> TRUE
          [] OTHER -> FALSE
  IN
  [lamports |-> account.lamports,
   sol |-> ToSol(account.lamports),
   state |-> IF account.delegation.present THEN "delegated" ELSE "inactive",
   validator |-> IF account.delegation.present
                    /\ account.delegation.voter # <<>>
                 THEN JsString(account.delegation.voter)
                 ELSE [t |-> "null", s |-> <<>>],
   activationEpoch |-> IF account.delegation.present
                          /\ EpochTruthy(account.delegation.activationEpoch)
                       THEN account.delegation.activationEpoch
                       ELSE EpochNull]

\* GET /stake/list: getStakeAccounts sends the program-account scan
HandleStakeList ==
  /\ UNCHANGED replies
  /\ pc = "idle"
  /\ UNCHANGED args
  /\ IF ~walletLoaded
     THEN NotLoaded("getStakeAccounts")
     ELSE /\ pc' = "scan"
          /\ op' = "getStakeAccounts"
          /\ trace' = <<"getParsedProgramAccounts">>
          /\ UNCHANGED <<local, query, quote, transaction, submitted,
                         result, ledger>>
  /\ caller = "server"
  /\ UNCHANGED <<process, request>>

\* the scan answers with the accounts whose staker is the wallet
ScanResponse(ok, accounts, e) ==
  /\ replies' = Append(replies, IF ok THEN "ok" ELSE e)
  /\ pc = "scan"
  /\ pc' = "done"
  /\ IF ok
     THEN /\ local' = [local EXCEPT !.accounts = accounts]
          /\ result' = Success([Blank.NoResult EXCEPT !.list =
                         [i \in 1..Len(accounts) |-> Summary(accounts[i])]])
     ELSE /\ result' = Failure("scan", e)
          /\ UNCHANGED local
  /\ UNCHANGED <<op, args, query, quote, transaction, submitted, trace, ledger>>
  /\ UNCHANGED <<process, request>>

\* Staking.unstake(stakeAccountAddress) up to its submission
unstake(stakeAccount) ==
  IF ~IsPublicKey(stakeAccount)
  THEN /\ Throw("build", "Invalid public key input")
       /\ UNCHANGED <<transaction, submitted, trace>>
  ELSE /\ Submit(<<Instruction("StakeProgram.deactivate", JsInt(0),
                               stakeAccount)>>, {"wallet"})
       /\ UNCHANGED result

\* Staking.withdraw(stakeAccountAddress) up to its balance query
withdraw(stakeAccount) ==
  IF ~IsPublicKey(stakeAccount)
  THEN /\ Throw("build", "Invalid public key input")
       /\ UNCHANGED trace
  ELSE /\ pc' = "balance"
       /\ trace' = <<"getBalance">>
       /\ UNCHANGED result

\* POST /stake/unstake: Staking.unstake up to its submission
HandleStakeUnstake(stakeAccount) ==
  /\ UNCHANGED replies
  /\ pc = "idle"
  /\ args' = [Blank.NoArgs EXCEPT !.stakeAccount = stakeAccount]
  /\ IF ~walletLoaded
     THEN NotLoaded("unstake")
     ELSE IF Lacks("unstake", args')
     THEN Reject("unstake")
     ELSE /\ op' = "unstake"
          /\ unstake(stakeAccount)
          /\ UNCHANGED <<local, query, quote, ledger>>
  /\ caller = "server"
  /\ UNCHANGED <<process, request>>

\* POST /stake/withdraw: Staking.withdraw up to its balance query
HandleStakeWithdraw(stakeAccount) ==
  /\ UNCHANGED replies
  /\ pc = "idle"
  /\ args' = [Blank.NoArgs EXCEPT !.stakeAccount = stakeAccount]
  /\ IF ~walletLoaded
     THEN NotLoaded("withdraw")
     ELSE IF Lacks("withdraw", args')
     THEN Reject("withdraw")
     ELSE /\ op' = "withdraw"
          /\ withdraw(stakeAccount)
          /\ UNCHANGED <<local, query, quote, transaction, submitted, ledger>>
  /\ caller = "server"
  /\ UNCHANGED <<process, request>>

\* solana-agent stake delegate <validator> <amount_sol>
CliStakeDelegate(validator, amount, key) ==
  /\ UNCHANGED replies
  /\ pc = "idle"
  /\ args' = [Blank.NoArgs EXCEPT !.validator = validator, !.amount = amount]
  /\ IF ~LoadsWallet(file)
     THEN CliNoWallet("stake")
     ELSE IF Lacks("stake", args')
     THEN RejectUsage("stake")
     ELSE /\ op' = "stake"
          /\ stake(validator, parseFloat(amount), key)
          /\ UNCHANGED <<query, quote, transaction, submitted, ledger>>
  /\ caller = "cli"
  /\ UNCHANGED <<process, request>>

\* solana-agent stake unstake <stake_account_address>
\* wallet address, tokens, stake validators, help: `wallet address` and
\* `stake validators` load the wallet first; `wallet address` prints the
\* bare address with console.log, help prints the help text, the two
\* tables are printed with JSON.stringify
CliLocal(command) ==
  /\ UNCHANGED replies
  /\ pc = "idle"
  /\ caller = "cli"
  /\ UNCHANGED args
  /\ IF command \in {"wallet address", "stake validators"}
        /\ ~LoadsWallet(file)
     THEN CliNoWallet(command)
     ELSE /\ pc' = "done"
          /\ op' = command
          /\ result' =
               CASE command = "wallet address" ->
                      [Success([Blank.NoResult EXCEPT
                                  !.address = fromFile(file).address])
                         EXCEPT !.out = "text"]
                 [] command = "help" ->
                      [Success(Blank.NoResult) EXCEPT !.out = "text"]
                 [] OTHER -> Success(Blank.NoResult)
          /\ UNCHANGED <<local, query, quote, transaction, submitted, trace,
                         ledger>>
  /\ UNCHANGED <<process, request>>

CliStakeUnstake(stakeAccount) ==
  /\ UNCHANGED replies
  /\ pc = "idle"
  /\ args' = [Blank.NoArgs EXCEPT !.stakeAccount = stakeAccount]
  /\ IF ~LoadsWallet(file)
     THEN CliNoWallet("unstake")
     ELSE IF Lacks("unstake", args')
     THEN RejectUsage("unstake")
     ELSE /\ op' = "unstake"
          /\ unstake(stakeAccount)
          /\ UNCHANGED <<local, query, quote, ledger>>
  /\ caller = "cli"
  /\ UNCHANGED <<process, request>>

\* solana-agent stake withdraw <stake_account_address>
CliStakeWithdraw(stakeAccount) ==
  /\ UNCHANGED replies
  /\ pc = "idle"
  /\ args' = [Blank.NoArgs EXCEPT !.stakeAccount = stakeAccount]
  /\ IF ~LoadsWallet(file)
     THEN CliNoWallet("withdraw")
     ELSE IF Lacks("withdraw", args')
     THEN RejectUsage("withdraw")
     ELSE /\ op' = "withdraw"
          /\ withdraw(stakeAccount)
          /\ UNCHANGED <<local, query, quote, transaction, submitted, ledger>>
  /\ caller = "cli"
  /\ UNCHANGED <<process, request>>

\* getBalance(stakeAccount) answers with the balance the ledger holds now;
\* withdraw builds the instruction for that amount and submits it
StakeBalanceResponse(ok, e) ==
  /\ replies' = Append(replies, IF ok THEN "ok" ELSE e)
  /\ pc = "balance"
  /\ IF ok
     THEN /\ local' = [local EXCEPT !.stakeBalance = JsInt(ledgerStake)]
          /\ Submit(<<Instruction("StakeProgram.withdraw", JsInt(ledgerStake),
                                  args.stakeAccount)>>, {"wallet"})
          /\ UNCHANGED result
     ELSE /\ Throw("balance", e)
          /\ UNCHANGED <<local, transaction, submitted, trace>>
  /\ UNCHANGED <<op, args, query, quote, ledger>>
  /\ UNCHANGED <<process, request>>

\* GET /wallet/balance: Wallet.getBalance sends its balance query
HandleWalletBalance ==
  /\ UNCHANGED replies
  /\ pc = "idle"
  /\ UNCHANGED args
  /\ IF ~walletLoaded
     THEN NotLoaded("getBalance")
     ELSE /\ pc' = "walletBalance"
          /\ op' = "getBalance"
          /\ trace' = <<"getBalance">>
          /\ UNCHANGED <<local, query, quote, transaction, submitted,
                         result, ledger>>
  /\ caller = "server"
  /\ UNCHANGED <<process, request>>

\* the wallet balance arrives: balance / LAMPORTS_PER_SOL
WalletBalanceResponse(ok, balance, e) ==
  /\ replies' = Append(replies, IF ok THEN "ok" ELSE e)
  /\ pc = "walletBalance"
  /\ pc' = "done"
  /\ IF ok
     THEN /\ local' = [local EXCEPT !.stakeBalance = JsInt(balance)]
          /\ result' = Success([Blank.NoResult EXCEPT !.amount = ToSol(balance)])
     ELSE /\ result' = Failure("balance", e)
          /\ UNCHANGED local
  /\ UNCHANGED <<op, args, query, quote, transaction, submitted, trace, ledger>>
  /\ UNCHANGED <<process, request>>

(***************************************************************************)
(* The same call once more                                                 *)
(***************************************************************************)
\* how many times a caller repeats a call that returned
MaxRepeats == 1

\* the caller gets the result of stake or sendSol and sets out to make the
\* same call again; `submitted` keeps what went to the ledger so far
Again ==
  /\ pc = "done"
  /\ op \in {"stake", "sendSol"}
  /\ result.status = "ok"
  /\ args.repeats < MaxRepeats
  /\ pc' = "again"
  /\ args' = [args EXCEPT !.repeats = args.repeats + 1]
  /\ local' = Blank.NoLocal
  /\ transaction' = <<>>
  /\ trace' = <<>>
  /\ replies' = <<>>
  /\ result' = Blank.NoResult
  /\ UNCHANGED <<op, query, quote, submitted, ledger, process, request>>

\* the second call, with the arguments of the first
CallAgain(key, accepts) ==
  LET \* Keypair.generate(): a key no earlier call of the process generated
      Generated(earlier) ==
        Inputs.StakeKeys
          \ UNION {earlier[i].signers : i \in 1..Len(earlier)}
  IN
  /\ pc = "again"
  /\ IF op = "stake"
     THEN /\ key \in Generated(submitted)
          /\ stake(args.validator, parseFloat(args.amount), key)
          /\ UNCHANGED <<transaction, submitted>>
     ELSE sendSol(args.to,
                  IF caller = "cli" THEN ToNumber(args.amount)
                  ELSE parseFloat(args.amount), accepts)
  /\ UNCHANGED <<op, args, replies, query, quote, ledger, process, request>>

(***************************************************************************)
(* The ledger                                                              *)
(***************************************************************************)
HasCreate(tx) ==
  \E i \in 1..Len(tx) : tx[i].program = "createAssociatedTokenAccount"

\* sendAndConfirmTransaction answers: the ledger ran the transaction and
\* confirmed it, or the submission failed
SubmitResponse(confirmed, e) ==
  LET \* the ledger can execute the submitted transaction
      Executable ==
        CASE op = "withdraw" -> local.stakeBalance.v <= ledgerStake
          [] op = "sendToken" -> HasCreate(transaction) = ~ledgerAta
          [] OTHER -> TRUE
      \* what the method returns once its transaction is confirmed
      Returned ==
        CASE op = "withdraw" ->
               [Blank.NoResult EXCEPT !.amount = ToSol(local.stakeBalance.v)]
          [] op \in {"sendSol", "stake"} ->
               [Blank.NoResult EXCEPT !.amount = local.amountSol]
          [] OTHER -> Blank.NoResult
  IN
  /\ replies' = Append(replies, IF confirmed THEN "ok" ELSE e)
  /\ pc = "submit"
  /\ pc' = "done"
  /\ IF confirmed
     THEN /\ Executable
          /\ result' = Success(Returned)
          /\ balanceBefore' = IF op = "withdraw" THEN ledgerStake
                              ELSE balanceBefore
          /\ ledgerStake' = IF op = "withdraw"
                            THEN ledgerStake - local.stakeBalance.v
                            ELSE ledgerStake
          /\ ledgerAta' = IF op = "sendToken" THEN TRUE ELSE ledgerAta
     ELSE /\ result' = Failure("submit", e)
          /\ UNCHANGED ledger
  /\ UNCHANGED <<op, args, local, query, quote, transaction, submitted, trace>>
  /\ UNCHANGED <<process, request>>

\* another actor moves lamports into the stake account
LedgerDeposit ==
  /\ ledgerStake < MaxLamports
  /\ ledgerStake' = ledgerStake + 1
  /\ UNCHANGED <<pc, op, args, local, query, quote, transaction, submitted,
                 trace, replies, result, ledgerAta, balanceBefore>>
  /\ UNCHANGED <<process, request>>

\* another actor creates the destination token account
LedgerCreateAta ==
  /\ ~ledgerAta
  /\ ledgerAta' = TRUE
  /\ UNCHANGED <<pc, op, args, local, query, quote, transaction, submitted,
                 trace, replies, result, ledgerStake, balanceBefore>>
  /\ UNCHANGED <<process, request>>

\* the owner closes the destination token account
LedgerCloseAta ==
  /\ ledgerAta
  /\ ledgerAta' = FALSE
  /\ UNCHANGED <<pc, op, args, local, query, quote, transaction, submitted,
                 trace, replies, result, ledgerStake, balanceBefore>>
  /\ UNCHANGED <<process, request>>

(***************************************************************************)
(* AgentDEX client                                                         *)
(***************************************************************************)
\* the longest mints array handed to getPrices
MaxMints == 2

\* the mints argument of getPrices: left out, or an array of mints
MintsInputs ==
  {[t |-> "undefined", v |-> <<>>]}
    \cup {[t |-> "array", v |-> m] : m \in SeqsUpTo({SOL_MINT, USDC_MINT},
                                                    MaxMints)}

\* the HTTP methods and the fixed paths of the AgentDEX API
Api ==
  [GET |-> <<"G", "E", "T">>,
   POST |-> <<"P", "O", "S", "T">>,
   DELETE |-> <<"D", "E", "L", "E", "T", "E">>,
   SwapPath |-> <<"/", "a", "p", "i", "/", "v", "1", "/", "s", "w", "a", "p">>,
   PricesPath |->
     <<"/", "a", "p", "i", "/", "v", "1", "/", "p", "r", "i", "c", "e", "s">>,
   LimitOrderPath |->
     <<"/", "a", "p", "i", "/", "v", "1", "/", "l", "i", "m", "i", "t", "-",
       "o", "r", "d", "e", "r">>,
   RegisterPath |->
     <<"/", "a", "p", "i", "/", "v", "1", "/", "a", "g", "e", "n", "t", "s",
       "/", "r", "e", "g", "i", "s", "t", "e", "r">>,
   AgentInfoPath |->
     <<"/", "a", "p", "i", "/", "v", "1", "/", "a", "g", "e", "n", "t", "s",
       "/", "m", "e">>]

QuotePath(inputMint, outputMint, amount, slippageBps) ==
    <<"/", "a", "p", "i", "/", "v", "1", "/", "q", "u", "o", "t", "e", "?",
      "i", "n", "p", "u", "t", "M", "i", "n", "t", "=">>
    \o inputMint \o
    <<"&", "o", "u", "t", "p", "u", "t", "M", "i", "n", "t", "=">>
    \o outputMint \o
    <<"&", "a", "m", "o", "u", "n", "t", "=">>
    \o amount \o
    <<"&", "s", "l", "i", "p", "p", "a", "g", "e", "B", "p", "s", "=">>
    \o IntToText(slippageBps)

PortfolioPath(wallet) ==
    <<"/", "a", "p", "i", "/", "v", "1", "/", "p", "o", "r", "t", "f", "o",
      "l", "i", "o", "/">>
    \o wallet

\* `/api/v1/prices/${mints[0]}`
PricePath(mint) ==
    <<"/", "a", "p", "i", "/", "v", "1", "/", "p", "r", "i", "c", "e", "s",
      "/">>
    \o mint

\* `/api/v1/limit-order/${id}`
CancelPath(id) ==
    <<"/", "a", "p", "i", "/", "v", "1", "/", "l", "i", "m", "i", "t", "-",
      "o", "r", "d", "e", "r", "/">>
    \o id

\* {inputMint, outputMint, amount: String(amount), slippageBps,
\*  agentId: this.agentId}
SwapBody(inputMint, outputMint, amount, slippageBps, id) ==
  [Blank.NoBody EXCEPT !.present = TRUE, !.inputMint = inputMint,
                 !.outputMint = outputMint, !.amount = amount,
                 !.slippageBps = slippageBps, !.agentId = id]

\* {inputMint, outputMint, amount: String(amount), targetPrice}
LimitOrderBody(inputMint, outputMint, amount, targetPrice) ==
  [Blank.NoBody EXCEPT !.present = TRUE, !.inputMint = inputMint,
                 !.outputMint = outputMint, !.amount = amount,
                 !.targetPrice = targetPrice]

\* the path getPrices asks for: the price of the one mint of a one-element
\* array, the list of all prices otherwise
PricesRequestPath(mints) ==
  IF mints.t = "array" /\ Len(mints.v) = 1 THEN PricePath(mints.v[1])
  ELSE Api.PricesPath

\* the message request throws for a non-success answer,
\* `AgentDEX API ${method} ${path} failed (${res.status}): ${text}`: the
\* body text is '' when res.text() rejects
AgentDEXError(method, path, e) ==
  LET text == IF e.readable THEN e.body ELSE <<>>
  IN  <<"A", "g", "e", "n", "t", "D", "E", "X", " ", "A", "P", "I", " ">>
      \o method \o <<" ">> \o path \o
      <<" ", "f", "a", "i", "l", "e", "d", " ", "(">>
      \o IntToText(e.status) \o <<")", ":", " ">> \o text

\* request(method, path, body) up to its fetch
AgentDEXRequest(o, a, method, path, body) ==
  /\ caller = "agentdex"
  /\ pc' = "fetch"
  /\ op' = o
  /\ args' = a
  /\ request' = [method |-> method, path |-> path, body |-> body]
  /\ trace' = <<"fetch">>
  /\ UNCHANGED <<local, query, quote, transaction, submitted, replies, result,
                 ledger, process>>

\* AgentDEXClient.getQuote(inputMint, outputMint, amount, slippageBps)
AgentDEX_getQuote(inputMint, outputMint, amount, slippageBps) ==
  /\ pc = "idle"
  /\ AgentDEXRequest("adx.getQuote",
                       [Blank.NoArgs EXCEPT !.from = inputMint, !.to = outputMint,
                                      !.amount = amount, !.slippage = slippageBps],
                       Api.GET, QuotePath(inputMint, outputMint, amount, slippageBps),
                       Blank.NoBody)

\* AgentDEXClient.swap(inputMint, outputMint, amount, slippageBps)
AgentDEX_swap(inputMint, outputMint, amount, slippageBps) ==
  /\ pc = "idle"
  /\ AgentDEXRequest("adx.swap",
                       [Blank.NoArgs EXCEPT !.from = inputMint, !.to = outputMint,
                                      !.amount = amount, !.slippage = slippageBps],
                       Api.POST, Api.SwapPath,
                       SwapBody(inputMint, outputMint, amount, slippageBps,
                                agentId))

\* AgentDEXClient.getPortfolio(wallet)
AgentDEX_getPortfolio(wallet) ==
  /\ pc = "idle"
  /\ AgentDEXRequest("adx.getPortfolio", [Blank.NoArgs EXCEPT !.to = wallet],
                       Api.GET, PortfolioPath(wallet), Blank.NoBody)

\* AgentDEXClient.getPrices(mints)
AgentDEX_getPrices(mints) ==
  /\ pc = "idle"
  /\ AgentDEXRequest("adx.getPrices", [Blank.NoArgs EXCEPT !.mints = mints],
                       Api.GET, PricesRequestPath(mints), Blank.NoBody)

\* AgentDEXClient.createLimitOrder(inputMint, outputMint, amount, targetPrice)
AgentDEX_createLimitOrder(inputMint, outputMint, amount, targetPrice) ==
  /\ pc = "idle"
  /\ AgentDEXRequest("adx.createLimitOrder",
                       [Blank.NoArgs EXCEPT !.from = inputMint, !.to = outputMint,
                                      !.amount = amount],
                       Api.POST, Api.LimitOrderPath,
                       LimitOrderBody(inputMint, outputMint, amount, targetPrice))

\* AgentDEXClient.getLimitOrders()
AgentDEX_getLimitOrders ==
  /\ pc = "idle"
  /\ AgentDEXRequest("adx.getLimitOrders", Blank.NoArgs, Api.GET, Api.LimitOrderPath, Blank.NoBody)

\* AgentDEXClient.cancelLimitOrder(id)
AgentDEX_cancelLimitOrder(id) ==
  /\ pc = "idle"
  /\ AgentDEXRequest("adx.cancelLimitOrder", [Blank.NoArgs EXCEPT !.id = id],
                       Api.DELETE, CancelPath(id), Blank.NoBody)

\* AgentDEXClient.register()
AgentDEX_register ==
  /\ pc = "idle"
  /\ AgentDEXRequest("adx.register", Blank.NoArgs, Api.POST, Api.RegisterPath, Blank.NoBody)

\* AgentDEXClient.getAgentInfo()
AgentDEX_getAgentInfo ==
  /\ pc = "idle"
  /\ AgentDEXRequest("adx.getAgentInfo", Blank.NoArgs, Api.GET, Api.AgentInfoPath, Blank.NoBody)

\* what the price service answers to a GET of the path: the one price of
\* /prices/<mint>, every tracked price for /prices
ServicePrices(path) ==
  IF \E i \in 1..Len(Answers.TrackedMints) : path = PricePath(Answers.TrackedMints[i])
  THEN CHOOSE m \in {Answers.TrackedMints[i] : i \in 1..Len(Answers.TrackedMints)} :
         path = PricePath(m)
  ELSE Answers.TrackedMints

\* what getPrices returns for the parsed answer: [price] for a one-element
\* array, the answer itself otherwise
PricesResult(mints, answer) ==
  IF mints.t = "array" /\ Len(mints.v) = 1 THEN <<answer>> ELSE answer

\* a client that takes the id from every answer
StoresId_Always(o) == TRUE

\* of the methods of the client, register alone assigns this.agentId
StoresId(o) == o = "adx.register"

\* a register that forgets the id
RegisteredId_Kept(info, id) == id

\* this.agentId = info.id
RegisteredId(info, id) == info.id

\* the service answers: request throws on a non-success status and returns
\* the parsed body otherwise; register then stores info.id
AgentDEXResponse(r, e, info) ==
  /\ pc = "fetch"
  /\ pc' = "done"
  /\ replies' = Append(replies, r)
  /\ local' = [local EXCEPT !.response = ResponseOf(r, e)]
  /\ IF ResponseOk(r)
     THEN /\ result' = Success([Blank.NoResult EXCEPT
                         !.prices = IF op = "adx.getPrices"
                                    THEN PricesResult(args.mints,
                                           ServicePrices(request.path))
                                    ELSE <<>>,
                         !.info = IF op = "adx.register" THEN info
                                  ELSE Blank.NoInfo])
          /\ agentId' = IF StoresId(op) THEN RegisteredId(info, agentId)
                        ELSE agentId
     ELSE /\ result' =
               IF r = "http error"
               THEN [Failure("fetch", "AgentDEX API failed") EXCEPT !.message =
                       AgentDEXError(request.method, request.path, e)]
               ELSE Failure("fetch", "fetch failed")
          /\ UNCHANGED agentId
  /\ UNCHANGED <<op, args, query, quote, transaction, submitted, trace,
                 request, ledger, caller, walletLoaded, file>>

(***************************************************************************)
(* The steps of a process                                                  *)
(***************************************************************************)
Next ==
  \/ \E x \in Inputs.MintInputs : CallResolveMint(x)
  \/ \E x \in Inputs.ValidatorInputs : CallResolveValidator(x)
  \/ ResolveAgain
  \/ \E from \in Inputs.SwapSymbols, to \in Inputs.SwapSymbols,
        amount \in Inputs.SwapAmounts,
        slippage \in Inputs.Slippages :
          HandleSwapQuote(from, to, amount, slippage)
  \/ \E from \in Inputs.SwapSymbols, to \in Inputs.SwapSymbols,
        amount \in Inputs.SwapAmounts,
        slippage \in Inputs.Slippages :
          HandleSwapExecute(from, to, amount, slippage)
  \/ \E r \in Answers.HttpOutcomes, payload \in Answers.QuotePayloads,
        e \in Answers.HttpErrors :
        QuoteResponse(r, payload, e)
  \/ \E r \in Answers.HttpOutcomes,
        e \in Answers.HttpErrors : SwapBuildResponse(r, e)
  \/ \E r \in {"ok"} \cup Answers.RpcErrors, signature \in Answers.Signatures :
        SendResponse(r, signature)
  \/ \E r \in {"ok", "err"} \cup Answers.RpcErrors,
        err \in Answers.TransactionErrors :
        ConfirmResponse(r, err)
  \/ \E to \in Inputs.AddressInputs, amount \in Inputs.AmountTexts,
        accepts \in BOOLEAN :
        HandleTransferSol(to, amount, accepts)
  \/ \E to \in Inputs.AddressInputs, amount \in Inputs.AmountTexts,
        mint \in Inputs.MintAddresses :
        HandleTransferToken(to, amount, mint)
  \/ \E r \in Answers.GetAccountOutcomes : GetAccountAnswer(r)
  \/ GetAccountResponse
  \/ \E validator \in Inputs.StakeValidators, amount \in Inputs.AmountTexts,
        key \in Inputs.StakeKeys : HandleStakeDelegate(validator, amount, key)
  \/ \E ok \in BOOLEAN, rent \in Answers.RentValues, accepts \in BOOLEAN,
        e \in Answers.RpcErrors : RentResponse(ok, rent, accepts, e)
  \/ HandleStakeList
  \/ \E ok \in BOOLEAN, accounts \in SeqsUpTo(ParsedAccounts, MaxAccounts),
        e \in Answers.RpcErrors : ScanResponse(ok, accounts, e)
  \/ \E stakeAccount \in Inputs.AddressInputs : HandleStakeUnstake(stakeAccount)
  \/ \E stakeAccount \in Inputs.AddressInputs : HandleStakeWithdraw(stakeAccount)
  \/ \E ok \in BOOLEAN, e \in Answers.RpcErrors : StakeBalanceResponse(ok, e)
  \/ HandleWalletBalance
  \/ \E ok \in BOOLEAN, balance \in Answers.WalletBalances,
        e \in Answers.RpcErrors :
        WalletBalanceResponse(ok, balance, e)
  \/ \E confirmed \in BOOLEAN, e \in Answers.RpcErrors :
        SubmitResponse(confirmed, e)
  \/ \E mintAddress \in Inputs.MintAddresses : CallGetTokenBalance(mintAddress)
  \/ \E r \in Answers.GetAccountOutcomes, amount \in Answers.TokenAmounts :
        TokenBalanceResponse(r, amount)
  \/ \E token \in Inputs.PriceTokens : HandlePrice(token)
  \/ \E from \in Inputs.CliSymbols, to \in Inputs.CliSymbols,
        amount \in Inputs.SwapAmounts :
        CliSwapQuote(from, to, amount)
  \/ \E from \in Inputs.CliSymbols, to \in Inputs.CliSymbols,
        amount \in Inputs.SwapAmounts :
        CliSwapExecute(from, to, amount)
  \/ \E token \in Inputs.PriceTokens : CliPrice(token)
  \/ \E to \in Inputs.AddressInputs, amount \in Inputs.CliAmounts,
        tokenMint \in Inputs.CliTokenMints, accepts \in BOOLEAN :
        CliTransfer(to, amount, tokenMint, accepts)
  \/ \E validator \in Inputs.StakeValidators, amount \in Inputs.CliAmounts,
        key \in Inputs.StakeKeys : CliStakeDelegate(validator, amount, key)
  \/ \E stakeAccount \in Inputs.AddressInputs : CliStakeUnstake(stakeAccount)
  \/ \E stakeAccount \in Inputs.AddressInputs : CliStakeWithdraw(stakeAccount)
  \/ \E command \in Inputs.LocalCommands : CliLocal(command)
  \/ \E secretKey \in Inputs.SecretKeys, ok \in BOOLEAN :
        CallSave(secretKey, ok)
  \/ \E secretKey \in Inputs.SecretKeys, ok \in BOOLEAN :
        CliWalletCreate(secretKey, ok)
  \/ \E ok \in BOOLEAN : ChmodReturns(ok)
  \/ CallFromFile
  \/ Again
  \/ \E key \in Inputs.StakeKeys, accepts \in BOOLEAN : CallAgain(key, accepts)
  \/ \E url \in Inputs.OtherUrls : HandleOther(url)
  \/ HandleHealth
  \/ \E route \in Inputs.BodyRoutes : HandleInvalidJson(route)
  \/ LedgerDeposit
  \/ LedgerCreateAta
  \/ LedgerCloseAta
  \/ \E inputMint \in {SOL_MINT}, outputMint \in {USDC_MINT},
        amount \in Inputs.SwapAmounts, slippageBps \in {DefaultSlippageBps} :
        AgentDEX_getQuote(inputMint, outputMint, amount, slippageBps)
  \/ \E inputMint \in {SOL_MINT}, outputMint \in {USDC_MINT},
        amount \in Inputs.SwapAmounts, slippageBps \in {DefaultSlippageBps} :
        AgentDEX_swap(inputMint, outputMint, amount, slippageBps)
  \/ \E wallet \in {OTHER_ADDRESS} : AgentDEX_getPortfolio(wallet)
  \/ \E mints \in MintsInputs : AgentDEX_getPrices(mints)
  \/ \E inputMint \in {SOL_MINT}, outputMint \in {USDC_MINT},
        amount \in Inputs.SwapAmounts, targetPrice \in {2} :
        AgentDEX_createLimitOrder(inputMint, outputMint, amount, targetPrice)
  \/ AgentDEX_getLimitOrders
  \/ \E id \in Inputs.OrderIds : AgentDEX_cancelLimitOrder(id)
  \/ AgentDEX_register
  \/ AgentDEX_getAgentInfo
  \/ \E r \in Answers.HttpOutcomes, e \in Answers.HttpErrors,
        info \in Answers.AgentInfos :
        AgentDEXResponse(r, e, info)
  \/ Finish

Spec == Init /\ [][Next]_vars

\* Every remote call eventually returns or fails, and a resolved await
\* resumes: the step that answers the call the invocation waits for is
\* taken when it stays possible.
LiveSpec ==
  /\ Spec
  /\ WF_vars(\/ /\ pc = "quote" /\ op \in {"getQuote", "swap"}
                /\ \E r \in Answers.HttpOutcomes,
                      payload \in Answers.QuotePayloads,
                      e \in Answers.HttpErrors : QuoteResponse(r, payload, e)
             \/ /\ pc = "swapBuild"
                /\ \E r \in Answers.HttpOutcomes, e \in Answers.HttpErrors :
                      SwapBuildResponse(r, e)
             \/ /\ pc = "send"
                /\ \E r \in {"ok"} \cup Answers.RpcErrors,
                      signature \in Answers.Signatures :
                      SendResponse(r, signature)
             \/ /\ pc = "confirm"
                /\ \E r \in {"ok", "err"} \cup Answers.RpcErrors,
                      err \in Answers.TransactionErrors :
                      ConfirmResponse(r, err)
             \/ /\ pc = "getAccount"
                /\ \E r \in Answers.GetAccountOutcomes : GetAccountAnswer(r)
             \/ /\ pc = "gotAccount"
                /\ GetAccountResponse
             \/ /\ pc = "rent"
                /\ \E ok \in BOOLEAN, rent \in Answers.RentValues,
                      accepts \in BOOLEAN, e \in Answers.RpcErrors :
                      RentResponse(ok, rent, accepts, e)
             \/ /\ pc = "balance"
                /\ \E ok \in BOOLEAN, e \in Answers.RpcErrors :
                      StakeBalanceResponse(ok, e)
             \/ /\ pc = "submit"
                /\ \E confirmed \in BOOLEAN, e \in Answers.RpcErrors :
                      SubmitResponse(confirmed, e))

(***************************************************************************)
(* Properties                                                              *)
(***************************************************************************)
HasProgram(tx, program) == \E i \in 1..Len(tx) : tx[i].program = program

\* C1: sendToken adds the account-creation instruction exactly when the
\* existence check failed with TokenAccountNotFoundError; when the check
\* failed with any other error, that error is what the call fails with, no
\* transfer instruction is built and nothing is submitted.  (Read once the
\* try/catch around the check has run.)
C1_CreateIffNotFound ==
  (op = "sendToken" /\ replies # <<>> /\ pc # "gotAccount") =>
    /\ HasProgram(transaction, "createAssociatedTokenAccount")
         <=> replies[1] = "TokenAccountNotFoundError"
    /\ replies[1] \notin {"found", "TokenAccountNotFoundError"} =>
         /\ result.status = "error"
         /\ result.error = replies[1]
         /\ transaction = <<>>
         /\ submitted = <<>>
         /\ trace = <<"getAccount">>

\* C1 witness: the check reported not-found and the transaction submitted
\* starts with the creation instruction
C1_Witness ==
  /\ op = "sendToken"
  /\ pc = "submit"
  /\ replies = <<"TokenAccountNotFoundError">>
  /\ Len(transaction) = 2
  /\ transaction[1].program = "createAssociatedTokenAccount"
  /\ transaction[2].program = "createTransfer"

SwapOrder ==
  <<"quote GET", "swap POST", "sign", "sendTransaction", "confirmTransaction">>

\* the steps a swap has made once n of its remote calls got a good answer
SwapStepsAfter(n) ==
  CASE n = 0 -> SubSeq(SwapOrder, 1, 1)
    [] n = 1 -> SubSeq(SwapOrder, 1, 2)
    [] n = 2 -> SubSeq(SwapOrder, 1, 4)
    [] OTHER -> SwapOrder

\* C2: the steps of swap happen in the order quote GET, swap-build POST,
\* sign, sendTransaction, confirmTransaction, and a failed step is the last
\* one: after the first answer that is not a success no further step is made.
C2_SwapStepOrder ==
  op = "swap" =>
    /\ trace = SubSeq(SwapOrder, 1, Len(trace))
    /\ \A i \in 1..Len(replies) :
         replies[i] # "ok" =>
           /\ trace = SwapStepsAfter(i - 1)
           /\ i <= 2 => submitted = <<>>
           /\ result.status = "error"

\* C2 witness: a swap whose swap-build POST failed after a good quote
C2_Witness ==
  /\ op = "swap"
  /\ replies = <<"ok", "http error">>
  /\ trace = <<"quote GET", "swap POST">>
  /\ result.status = "error"

EqualsIgnoreCase(a, b) == toLowerCase(a) = toLowerCase(b)

\* what the resolver contract asks for: the address of the symbol that
\* equals x ignoring letter case, else x itself
Resolved(table, x) ==
  IF \E e \in table : EqualsIgnoreCase(e[1], x)
  THEN JsString((CHOOSE e \in table : EqualsIgnoreCase(e[1], x))[2])
  ELSE JsString(x)

\* C3: resolveMint(x) and resolveValidator(x) return the table address of the
\* symbol that equals x ignoring letter case, and otherwise the string x
\* itself, for every string x.
C3_ResolveContract ==
  /\ op = "resolveMint" => result.value = Resolved(TOKENS, args.x)
  /\ op = "resolveValidator" => result.value = Resolved(VALIDATORS, args.x)

\* C4: resolving what a resolver returned changes nothing:
\* resolve(resolve(x)) = resolve(x) for both resolvers.
C4_ResolveIdempotent ==
  (op \in {"resolveMint", "resolveValidator"} /\ pc = "done") =>
    result.again = result.value

\* C5: a successful withdraw returns, and its instruction moves, the balance
\* the stake account held just before the withdrawal ran, whatever happened
\* to that balance between the balance query and the submission.
C5_WithdrawsBalanceBefore ==
  (op = "withdraw" /\ result.status = "ok") =>
    /\ result.amount = ToSol(balanceBefore)
    /\ transaction[1].lamports = JsInt(balanceBefore)

\* C6: the create-account instruction of stake carries exactly the converted
\* amount plus the rent exemption answered to the query of the same call.
C6_FundedBalance ==
  (op = "stake" /\ replies # <<>> /\ replies[1] = "ok") =>
    /\ local.totalLamports =
         JsPlus(ToLamports(parseFloat(args.amount)), local.rentExemption)
    /\ local.rentExemption.k = "int"
    /\ local.rentExemption.v \in Answers.RentValues
    /\ transaction # <<>> =>
         /\ transaction[1].program = "StakeProgram.createAccount"
         /\ transaction[1].lamports = local.totalLamports
         /\ \A i \in 2..Len(transaction) : transaction[i].lamports = JsInt(0)

\* C6 witness: 0.3 SOL staked with a rent exemption of 2282880 lamports
C6_Witness ==
  /\ op = "stake"
  /\ pc = "submit"
  /\ args.amount = <<"0", ".", "3">>
  /\ local.rentExemption = JsInt(2282880)
  /\ transaction[1].lamports = JsInt(302282880)

\* C7: a summary says 'delegated' exactly when the scanned account has a
\* delegation, and its activationEpoch is null exactly when it says
\* 'inactive', for every epoch value, epoch 0 included.
C7_StakeAccountState ==
  (op = "getStakeAccounts" /\ result.status = "ok") =>
    \A i \in 1..Len(result.list) :
      /\ result.list[i].state = "delegated"
           <=> local.accounts[i].delegation.present
      /\ result.list[i].state \in {"delegated", "inactive"}
      /\ result.list[i].activationEpoch = EpochNull
           <=> result.list[i].state = "inactive"

\* the integer part of amount * 1,000,000,000 for the decimal the text writes
ExactLamports(text) ==
  LET int   == DigitPrefix(text)
      after == SubSeq(text, Len(int) + 1, Len(text))
      frac  == IF after # <<>> /\ after[1] = "."
               THEN DigitPrefix(Tail(after)) ELSE <<>>
      d     == DivPow10(LimbTimes(DecToLimbs(int \o frac), LAMPORTS_PER_SOL),
                        Len(frac), FALSE)
  IN  BitsToInt(StripZeros(LimbsToBits(d.q)))

\* C8: sendSol and stake truncate: the lamports are the integer part of
\* amount * 1,000,000,000, for every amount.
C8_Truncates ==
  (op \in {"sendSol", "stake"} /\ local.lamports.k = "int") =>
    local.lamports.v = ExactLamports(args.amount)

\* C9: every amount placed in a ledger instruction is an integer number of
\* base units, and every native amount returned is the decimal SOL of the
\* base units (base units / 1,000,000,000).
C9_AmountUnits ==
  /\ \A i \in 1..Len(submitted) :
       \A j \in 1..Len(submitted[i].instructions) :
         submitted[i].instructions[j].lamports.k = "int"
  /\ (result.status = "ok" /\ op \in {"sendSol", "stake"}) =>
       ToLamports(result.amount) = local.lamports
  /\ (result.status = "ok" /\ op \in {"withdraw", "getBalance"}) =>
       result.amount = ToSol(local.stakeBalance.v)

\* the address a mint argument stands for
Canonical(x) == Resolved(TOKENS, x).s

\* C10: getQuote sends the canonical mint addresses in its query and returns
\* them as inputMint / outputMint, so a call with symbols in any letter case
\* and a call with the addresses they stand for send the same query and
\* return the same mints.
C10_QuoteMints ==
  (op \in {"getQuote", "swap"} /\ trace # <<>>) =>
    /\ query.inputMint = Canonical(args.from)
    /\ query.outputMint = Canonical(args.to)
    /\ query = QuoteParams(resolveMint(JsString(Canonical(args.from))),
                           resolveMint(JsString(Canonical(args.to))),
                           args.amount,
                           IF args.slippage = 0 THEN DefaultSlippageBps
                           ELSE args.slippage)
    /\ (op = "getQuote" /\ result.status = "ok") =>
         /\ result.inputMint = JsString(Canonical(args.from))
         /\ result.outputMint = JsString(Canonical(args.to))

\* C10 witness: a quote asked for with the symbols "sol" and "USDC" went out
\* with, and returned, the two table addresses
C10_Witness ==
  /\ op = "getQuote"
  /\ result.status = "ok"
  /\ args.from = <<"s", "o", "l">>
  /\ args.to = USDC
  /\ query.inputMint = SOL_MINT
  /\ query.outputMint = USDC_MINT
  /\ result.inputMint = JsString(SOL_MINT)
  /\ result.outputMint = JsString(USDC_MINT)

\* the text sub occurs in the text
Contains(text, sub) ==
  \E i \in 1..(Len(text) - Len(sub) + 1) :
    SubSeq(text, i, i + Len(sub) - 1) = sub

\* the operations that ask the quote, swap-build or AgentDEX service
HttpOps ==
  {"getQuote", "swap", "adx.getQuote", "adx.swap", "adx.getPortfolio",
   "adx.getPrices", "adx.createLimitOrder", "adx.getLimitOrders",
   "adx.cancelLimitOrder", "adx.register", "adx.getAgentInfo"}

\* C11: when the quote, swap-build or AgentDEX service answered with a
\* non-success status, the operation fails, returns nothing, and the message
\* of its error carries the status code and the body text of the answer.
C11_HttpFailureCarries ==
  (op \in HttpOps /\ pc = "done" /\ local.response.status \notin {0, 200}) =>
    /\ result.status = "error"
    /\ result.prices = <<>> /\ result.info = Blank.NoInfo
    /\ result.inputMint = JsUndefined
    /\ Contains(result.message, IntToText(local.response.status))
    /\ local.response.readable =>
         Contains(result.message, local.response.body)

LacksRequired == \E f \in Required(op) : args[f] = <<>>

\* the invocation was turned away before any orchestrator method or remote
\* call: nothing was called, built or submitted
TurnedAway ==
  /\ pc = "done"
  /\ result.status = "error"
  /\ result.failedAt \in {"validation", "wallet"}
  /\ trace = <<>> /\ replies = <<>>
  /\ local = Blank.NoLocal /\ transaction = <<>> /\ submitted = <<>>

BodyParsed == ~(pc = "done" /\ result.failedAt = "parseBody")

NotFound == "TokenAccountNotFoundError"

\* the not-found error of the i-th remote call reached the caller as it was
Propagated(i) ==
  /\ i = Len(replies)
  /\ pc = "done"
  /\ result.status = "error"
  /\ result.error = NotFound

\* sendToken took the not-found answer of its existence check for the signal
\* to create the account: its catch block has the error, or has already
\* added the creation
SendTokenRecovered ==
  /\ pc = "gotAccount" \/ HasCreate(transaction)
  /\ result.failedAt # "getAccount"
  /\ result.error # NotFound \/ Len(replies) > 1

\* C14 as stated: a not-found error is a recoverable signal only in the
\* existence check of Transfer.sendToken; in every other operation it
\* reaches the caller unmodified.
C14_RecoveredOnlyInSendToken ==
  \A i \in 1..Len(replies) :
    replies[i] = NotFound =>
      IF op = "sendToken" /\ i = 1 THEN SendTokenRecovered
      ELSE Propagated(i)

\* C14: a not-found error is a recoverable signal only in the existence
\* check of Transfer.sendToken and in Wallet.getTokenBalance, which returns
\* 0 for it; in every other operation it reaches the caller unmodified.
C14_RecoveredInTwoPlaces ==
  \A i \in 1..Len(replies) :
    replies[i] = NotFound =>
      CASE op = "sendToken" /\ i = 1 -> SendTokenRecovered
        [] op = "getTokenBalance" ->
             result.status = "ok" /\ result.amount = Zero
        [] OTHER -> Propagated(i)

\* C14 witness: the balance query of a withdrawal raised not-found, and the
\* withdrawal failed with that error
C14_Witness ==
  /\ op = "withdraw"
  /\ replies = <<NotFound>>
  /\ result.error = NotFound
  /\ submitted = <<>>

\* C17: after Wallet.save returned, the file holds the secret key of the
\* wallet as a JSON array of its bytes, its mode is 0600, and Wallet.fromFile
\* of that file gives a wallet with the same address.
C17_SavedWalletLoads ==
  (op = "save" /\ pc = "done" /\ result.status = "ok") =>
    /\ file.exists
    /\ JsonParse(file.content) = [t |-> "array", v |-> local.keypair]
    /\ file.mode = "600"
    /\ fromFile(file).ok
    /\ fromFile(file).address = AddressOf(local.keypair)
    /\ fromFile(file).address = result.address

\* C17 witness: save returned after it wrote the key 7, 10 and set the mode
C17_Witness ==
  /\ op = "save" /\ pc = "done" /\ result.status = "ok"
  /\ local.keypair = <<7, 10>>
  /\ file.content = <<"[", "7", ",", "1", "0", "]">>
  /\ replies = <<"ok">>

C16_EveryCallSubmits ==
  (op \in {"stake", "sendSol"} /\ pc = "done" /\ result.status = "ok") =>
    /\ Len(submitted) = args.repeats + 1
    /\ \A i \in 1..Len(submitted) : submitted[i].instructions # <<>>
    /\ submitted[Len(submitted)].instructions = transaction
    /\ op = "sendSol" =>
         \A i \in 1..Len(submitted) : submitted[i].instructions = transaction
    /\ op = "stake" =>
         \A i, j \in 1..Len(submitted) :
           i # j =>
             /\ submitted[i].signers # submitted[j].signers
             /\ submitted[i].instructions[1].account
                  # submitted[j].instructions[1].account

\* C16 witness: the second of two equal sendSol calls has returned
C16_Witness ==
  /\ op = "sendSol" /\ pc = "done" /\ result.status = "ok"
  /\ args.repeats = 1
  /\ Len(submitted) = 2
  /\ submitted[1] = submitted[2]

\* C18: getPrices(mints) returns the prices of exactly the mints of the array
\* it is given, whatever the length of the array, and the prices of all
\* tracked tokens only when it is given no array.
C18_PricesOfGivenMints ==
  (op = "adx.getPrices" /\ pc = "done" /\ result.status = "ok") =>
    result.prices = IF args.mints.t = "array" THEN args.mints.v
                    ELSE Answers.TrackedMints

\* C19: when register has returned info, the agentId of the client is
\* info.id; the body of every swap request carries the agentId the client
\* holds; a register that failed, and every other operation, leaves the
\* agentId as it was.
C19_AgentIdFromRegister ==
  /\ [](/\ (op = "adx.register" /\ pc = "done" /\ result.status = "ok") =>
             agentId = result.info.id /\ result.info \in Answers.AgentInfos
        /\ op = "adx.swap" =>
             /\ request.method = Api.POST /\ request.path = Api.SwapPath
             /\ request.body.agentId = agentId)
  /\ [][agentId' # agentId =>
          /\ op = "adx.register" /\ pc = "fetch"
          /\ result'.status = "ok"
          /\ agentId' = result'.info.id]_vars

\* C19 witness: a swap is requested by a client that got its id from an
\* earlier register
C19_Witness ==
  /\ op = "adx.swap" /\ pc = "fetch"
  /\ agentId \in {info.id : info \in Answers.AgentInfos}
  /\ agentId \notin Inputs.ConfigAgentIds
  /\ request.body.agentId = agentId

\* the invocation ended with an error that was thrown, not with the answer
\* of a validation or of a wallet check
Thrown ==
  /\ pc = "done" /\ result.status = "error"
  /\ result.failedAt # "validation"
  /\ result.error \notin {"Wallet not loaded", "Wallet not found", "Not found"}

\* C20: every error raised while a request is handled is reported as the
\* envelope {success: false, error}: by the server with status 500 (400 only
\* for a missing field, 404 only for an unknown route), by the CLI with exit
\* code 1; and the server writes exactly one response per request.
C20_ErrorsReported ==
  /\ (caller = "server" /\ pc = "done") =>
       /\ result.written = 1
       /\ result.status = "error" =>
            /\ result.out = "envelope"
            /\ result.http \in {400, 404, 500}
            /\ result.http = 400 => result.failedAt = "validation"
            /\ result.http = 404 => op = "other"
       /\ Thrown => result.http = 500
  /\ (caller = "server" /\ pc # "done") => result.written = 0
  /\ (caller = "cli" /\ Thrown) =>
       result.out = "envelope" /\ result.exit = 1

\* the CLI has run a command to its end
CliEnded == caller = "cli" /\ pc = "done"

\* C21 as stated: every CLI command, on success and on failure, writes
\* parseable JSON as its output.  Refuted: `wallet address` prints the bare
\* address, help prints plain text, and a usage error or a missing wallet
\* file prints plain text and exits.
C21_CliWritesJson == CliEnded => result.out \in {"json", "envelope"}

\* how many times the invocation called sendAndConfirmTransaction
Sends ==
  Cardinality({i \in 1..Len(trace) : trace[i] = "sendAndConfirmTransaction"})

Calls(step) == Cardinality({i \in 1..Len(trace) : trace[i] = step})

\* C23: one call of Swapper.swap issues at most one quote GET, at most one
\* swap-build POST and at most one sendTransaction call (nothing is tried
\* again after a failure), and sendTransaction is called with maxRetries = 3
\* and skipPreflight = false.
C23_SwapSingleAttempt ==
  op = "swap" =>
    /\ Calls("quote GET") <= 1
    /\ Calls("swap POST") <= 1
    /\ Calls("sendTransaction") <= 1
    /\ Len(submitted) = Calls("sendTransaction")
    /\ \A i \in 1..Len(submitted) :
         /\ submitted[i].options.maxRetries = 3
         /\ submitted[i].options.skipPreflight = FALSE
    /\ (pc = "done" /\ result.status = "error") =>
         \A i \in 1..(Len(replies) - 1) : replies[i] = "ok"

\* C23 witness: sendTransaction rejected and swap ended with that error,
\* having sent once
C23_Witness ==
  /\ op = "swap" /\ pc = "done"
  /\ replies = <<"ok", "ok", "Error">>
  /\ Calls("sendTransaction") = 1 /\ Len(submitted) = 1
  /\ submitted[1].options.maxRetries = 3
  /\ result.status = "error"

\* sendToken hands its transaction to sendAndConfirmTransaction in this step
SendTokenSubmits == op = "sendToken" /\ pc = "gotAccount" /\ pc' = "submit"

\* C24 as stated: whenever sendToken submits a transaction with the
\* account-creation instruction the destination token account does not exist
\* on the ledger at that moment, and whenever it submits one without it the
\* account exists, in every interleaving with other actors.  Refuted: the
\* account can be created or closed by another actor between the answer of
\* getAccount and the submission.
C24_CreateMatchesLedger ==
  [][SendTokenSubmits => (HasCreate(transaction') = ~ledgerAta)]_vars

\* Wallet.save has written the secret key to the wallet file
SaveHasWritten ==
  /\ op = "save" /\ trace = <<"writeFileSync">>
  /\ file.exists /\ file.content = JsonStringifyBytes(local.keypair)

\* C25 as stated: at no point during or after Wallet.save is the credential
\* file on disk with secret-key content and permissions broader than
\* owner-only (0600).  Refuted: the key is written first and the mode is
\* narrowed afterwards, and not at all when chmodSync throws.
C25_SecretNeverBroaderThanOwner == SaveHasWritten => file.mode = "600"

\* the server has dealt with a request while it holds no wallet
UnloadedServerDone == caller = "server" /\ ~walletLoaded /\ pc = "done"

\* what the server answers: without a wallet nothing is called and every
\* request but GET /health gets 500 'Wallet not loaded'; GET /health gets 200
ServerAnswers ==
  /\ (caller = "server" /\ ~walletLoaded) =>
       (/\ pc \in {"idle", "done"}
        /\ trace = <<>> /\ transaction = <<>> /\ submitted = <<>>)
  /\ (UnloadedServerDone /\ op # "health") =>
       (/\ result.http = 500 /\ result.written = 1
        /\ result.error = "Wallet not loaded")
  /\ (caller = "server" /\ pc = "done" /\ op = "health") =>
       (result.http = 200 /\ result.written = 1)

\* C26 as stated: while the wallet of the server is not loaded, every
\* request other than GET /health is answered with status 500 'Wallet not
\* loaded' and invokes no wallet, swap, transfer or staking operation;
\* GET /health is answered with status 200 whether or not the wallet is
\* loaded; and no request replaces or unloads the wallet.  Refuted: a
\* request target that new URL rejects is not answered at all.
C26_NotLoadedAnswers500 ==
  []ServerAnswers /\ [][walletLoaded' = walletLoaded]_vars

\* the operations that call the ledger or a service on the caller's behalf
Orchestrations ==
  {"getQuote", "swap", "sendSol", "sendToken", "stake", "unstake", "withdraw"}

\* an invocation waits for the answer of a remote call
InFlight == op \in Orchestrations /\ pc \notin {"idle", "done", "again"}

\* an invocation has ended with a result or with an error
Ended == pc = "done" /\ result.status \in {"ok", "error"}

\* an operation that submits a transaction has returned a result
Returned ==
  /\ op \in Orchestrations \ {"getQuote"}
  /\ pc = "done" /\ result.status = "ok"

\* the last remote call made was the one that reports the confirmation, and
\* it was answered with the confirmation
ConfirmationReported ==
  /\ trace # <<>>
  /\ trace[Len(trace)] =
       IF op = "swap" THEN "confirmTransaction"
       ELSE "sendAndConfirmTransaction"
  /\ Len(replies) = Cardinality({i \in 1..Len(trace) : trace[i] # "sign"})
  /\ replies[Len(replies)] = "ok"

\* C27: when every remote call eventually returns or fails, every
\* invocation of getQuote, swap, sendSol, sendToken, stake, unstake and
\* withdraw eventually ends with a result or an error; and none of swap,
\* sendSol, sendToken, stake, unstake, withdraw returns a result before the
\* confirmation of its submitted transaction has been reported.
C27_TerminatesAfterConfirmation ==
  /\ InFlight ~> Ended
  /\ [](Returned => ConfirmationReported)

\* C27 witness: withdraw returned after its balance query and the
\* confirmation of its transaction were both answered
C27_Witness ==
  /\ op = "withdraw" /\ Returned
  /\ trace = <<"getBalance", "sendAndConfirmTransaction">>
  /\ replies = <<"ok", "ok">>

=============================================================================
